---- MODULE Spec2Model ----
(***************************************************************************)
(* Verification model of the WhatsApp task bot (index.js).                 *)
(*                                                                         *)
(* Two subsystems are modelled as state machines over one set of           *)
(* variables:                                                              *)
(*   - the classification pipeline: the live 'message' handler, the        *)
(*     backfill scanner (processStartupMessages / processMessagesForTasks),*)
(*     detectTask with the process-wide rateLimiter, and the two tables    *)
(*     processed_messages and tasks (SpecPipe);                            *)
(*   - the connection lifecycle: restartConnection, the transport events,  *)
(*     the connection timeout and the session directory (SpecConn).        *)
(*                                                                         *)
(* Text is a sequence of one-character strings.  The alphabet of the model *)
(* is ASCII: the Hebrew keyword list and the patterns that need a Hebrew   *)
(* letter or the shekel sign cannot match such a text and are left out of  *)
(* hasTaskIndicators.                                                      *)
(***************************************************************************)
EXTENDS Integers, Sequences, FiniteSets, Bags, TLC

(***************************************************************************)
(* Text helpers (String.prototype.includes / toLowerCase / trim / regex).  *)
(***************************************************************************)
UpperCase == <<"A","B","C","D","E","F","G","H","I","J","K","L","M","N","O","P","Q","R","S","T","U","V","W","X","Y","Z">>

LowerCase == <<"a","b","c","d","e","f","g","h","i","j","k","l","m","n","o","p","q","r","s","t","u","v","w","x","y","z">>

Digits == {"0","1","2","3","4","5","6","7","8","9"}

LowerChar(c) ==
    IF \E k \in 1..26 : UpperCase[k] = c
    THEN LowerCase[CHOOSE k \in 1..26 : UpperCase[k] = c]
    ELSE c

toLowerCase(text) == [i \in 1..Len(text) |-> LowerChar(text[i])]

IsDigit(c) == c \in Digits

IsSpace(c) == c = " "

\* \w of a JavaScript regular expression: [A-Za-z0-9_]
IsWordChar(c) ==
    \/ IsDigit(c)
    \/ c = "_"
    \/ \E k \in 1..26 : UpperCase[k] = c \/ LowerCase[k] = c

\* word occurs in text starting at position i
StartsAt(text, i, word) ==
    /\ i >= 1
    /\ i + Len(word) - 1 <= Len(text)
    /\ \A k \in 1..Len(word) : text[i + k - 1] = word[k]

\* String.prototype.includes
includes(text, word) == \E i \in 1..(Len(text) + 1) : StartsAt(text, i, word)

\* String.prototype.startsWith
startsWith(text, word) == StartsAt(text, 1, word)

DigitAt(text, i) == i >= 1 /\ i <= Len(text) /\ IsDigit(text[i])

CharAt(text, i, c) == i >= 1 /\ i <= Len(text) /\ text[i] = c

\* \s*word matched from position i
SpacesThen(text, i, word) ==
    \E j \in i..(Len(text) + 1) :
        /\ \A k \in i..(j - 1) : IsSpace(text[k])
        /\ StartsAt(text, j, word)

\* " ?word" matched from position i
OptSpaceThen(text, i, word) ==
    \/ StartsAt(text, i, word)
    \/ CharAt(text, i, " ") /\ StartsAt(text, i + 1, word)

\* \b immediately before position i, where text[i] is a word character
BoundaryBefore(text, i) == i = 1 \/ ~IsWordChar(text[i - 1])

\* \b immediately after position j, where text[j] is a word character
BoundaryAfter(text, j) == j = Len(text) \/ ~IsWordChar(text[j + 1])

\* String.prototype.trim().length
RECURSIVE TrimLeft(_)
TrimLeft(text) ==
    IF Len(text) > 0 /\ IsSpace(Head(text)) THEN TrimLeft(Tail(text)) ELSE text

RECURSIVE TrimRight(_)
TrimRight(text) ==
    IF Len(text) > 0 /\ IsSpace(text[Len(text)])
    THEN TrimRight(SubSeq(text, 1, Len(text) - 1))
    ELSE text

trim(text) == TrimRight(TrimLeft(text))

(***************************************************************************)
(* Indicator pre-filter.                                                   *)
(***************************************************************************)
englishIndicators ==
    {
      <<"t","o","m","o","r","r","o","w">>, <<"t","o","d","a","y">>, <<"y","e","s","t","e","r","d","a","y">>,
      <<"m","o","n","d","a","y">>, <<"t","u","e","s","d","a","y">>, <<"w","e","d","n","e","s","d","a","y">>,
      <<"t","h","u","r","s","d","a","y">>, <<"f","r","i","d","a","y">>, <<"s","a","t","u","r","d","a","y">>,
      <<"s","u","n","d","a","y">>, <<"n","e","x","t"," ","w","e","e","k">>, <<"t","h","i","s"," ","w","e","e","k">>,
      <<"n","e","x","t"," ","m","o","n","t","h">>, <<"a","t">>, <<"p","m">>,
      <<"a","m">>, <<"o","'","c","l","o","c","k">>, <<"o","c","l","o","c","k">>,
      <<"t","i","m","e">>, <<"d","a","t","e">>, <<"w","h","e","n">>,
      <<"s","c","h","e","d","u","l","e">>, <<"m","e","e","t","i","n","g">>, <<"a","p","p","o","i","n","t","m","e","n","t">>,
      <<"e","v","e","n","t">>, <<"p","a","r","t","y">>, <<"b","i","r","t","h","d","a","y">>,
      <<"w","e","d","d","i","n","g">>, <<"c","o","n","f","e","r","e","n","c","e">>, <<"w","o","r","k","s","h","o","p">>,
      <<"l","e","c","t","u","r","e">>, <<"c","l","a","s","s">>, <<"c","o","u","r","s","e">>,
      <<"c","h","e","c","k","u","p">>, <<"t","r","e","a","t","m","e","n","t">>, <<"d","o","c","t","o","r">>,
      <<"u","r","g","e","n","t">>, <<"d","e","a","d","l","i","n","e">>, <<"d","u","e">>,
      <<"r","e","m","i","n","d","e","r">>, <<"i","m","p","o","r","t","a","n","t">>, <<"c","a","l","l">>,
      <<"v","i","s","i","t">>, <<"p","a","y","m","e","n","t">>, <<"p","a","y">>,
      <<"t","r","a","n","s","f","e","r">>, <<"m","o","n","e","y">>, <<"$">>,
      <<"d","o","l","l","a","r">>, <<"b","i","l","l">>, <<"i","n","v","o","i","c","e">>,
      <<"r","e","g","i","s","t","r","a","t","i","o","n">>, <<"f","e","e">>, <<"c","o","s","t">>,
      <<"p","r","i","c","e">>, <<"c","h","a","r","g","e">>, <<"o","w","e">>,
      <<"d","e","b","t">>, <<"c","a","s","h">>, <<"c","r","e","d","i","t">>,
      <<"n","e","e","d">>, <<"m","u","s","t">>, <<"s","h","o","u","l","d">>,
      <<"h","a","v","e"," ","t","o">>, <<"g","o","t"," ","t","o">>, <<"r","e","m","e","m","b","e","r">>,
      <<"d","o","n","t"," ","f","o","r","g","e","t">>, <<"a","s","a","p">>, <<"q","u","i","c","k","l","y">>,
      <<"s","o","o","n">>
    }

timePatterns(text) ==
    LET lower == toLowerCase(text) IN
    \/ \E i \in 1..Len(text) :                       \* /\d{1,2}:\d{2}/
          DigitAt(text, i) /\ CharAt(text, i + 1, ":")
          /\ DigitAt(text, i + 2) /\ DigitAt(text, i + 3)
    \/ \E i \in 1..Len(text) :                       \* /\d{1,2}\.\d{2}/
          DigitAt(text, i) /\ CharAt(text, i + 1, ".")
          /\ DigitAt(text, i + 2) /\ DigitAt(text, i + 3)
    \/ \E i \in 1..Len(text) :                       \* /\d{1,2} ?pm|am/i, left branch
          DigitAt(text, i) /\ OptSpaceThen(lower, i + 1, <<"p","m">>)
    \/ includes(lower, <<"a","m">>)                  \* right branch "am" of both pm|am patterns
    \/ \E i \in 1..Len(text) :                       \* /\d{1,2}:\d{2} ?pm|am/i, left branch
          DigitAt(text, i) /\ CharAt(text, i + 1, ":")
          /\ DigitAt(text, i + 2) /\ DigitAt(text, i + 3)
          /\ OptSpaceThen(lower, i + 4, <<"p","m">>)
    \/ \E i \in 1..Len(text) :                       \* /at \d{1,2}/i
          StartsAt(lower, i, <<"a","t"," ">>) /\ DigitAt(text, i + 3)
    \/ \E i \in 1..Len(text) :                       \* /\d{1,2} ?o'?clock/i
          DigitAt(text, i)
          /\ \/ OptSpaceThen(lower, i + 1, <<"o","c","l","o","c","k">>)
             \/ OptSpaceThen(lower, i + 1, <<"o","'","c","l","o","c","k">>)
    \/ \E i \in 1..Len(text) : \E n \in 1..2 :       \* /\b\d{1,2}\/\d{1,2}/
          /\ \A k \in i..(i + n - 1) : DigitAt(text, k)
          /\ BoundaryBefore(text, i)
          /\ CharAt(text, i + n, "/") /\ DigitAt(text, i + n + 1)
    \/ \E i \in 1..Len(text) : \E n \in 1..2 :       \* /\b\d{1,2}-\d{1,2}/
          /\ \A k \in i..(i + n - 1) : DigitAt(text, k)
          /\ BoundaryBefore(text, i)
          /\ CharAt(text, i + n, "-") /\ DigitAt(text, i + n + 1)

amountPatterns(text) ==
    LET lower == toLowerCase(text) IN
    \/ \E i \in 1..Len(text) :                       \* /\$\d+/
          CharAt(text, i, "$") /\ DigitAt(text, i + 1)
    \/ \E i \in 1..Len(text) :                       \* /\d+\s*\$/
          DigitAt(text, i) /\ SpacesThen(text, i + 1, <<"$">>)
    \/ \E i \in 1..Len(text) :                       \* /\d+\s*dollars?/i
          DigitAt(text, i) /\ SpacesThen(lower, i + 1, <<"d","o","l","l","a","r">>)
    \/ \E i \in 1..Len(text) :                       \* /\d+\s*shekels?/i
          DigitAt(text, i) /\ SpacesThen(lower, i + 1, <<"s","h","e","k","e","l">>)
    \/ \E i \in 1..Len(text) :                       \* /\d+\s*\*\s*\d+/
          /\ DigitAt(text, i)
          /\ \E j \in (i + 1)..Len(text) :
                /\ \A k \in (i + 1)..(j - 1) : IsSpace(text[k])
                /\ text[j] = "*"
                /\ \E d \in (j + 1)..Len(text) :
                      /\ \A k \in (j + 1)..(d - 1) : IsSpace(text[k])
                      /\ IsDigit(text[d])
    \/ \E i \in 1..Len(text) :                       \* /\d+\s*nis/i
          DigitAt(text, i) /\ SpacesThen(lower, i + 1, <<"n","i","s">>)
    \/ \E i \in 1..Len(text) : \E j \in (i + 1)..Len(text) :   \* /\b\d{2,}\b/
          /\ \A k \in i..j : IsDigit(text[k])
          /\ BoundaryBefore(text, i)
          /\ BoundaryAfter(text, j)

urlPatterns(text) ==
    LET lower == toLowerCase(text) IN
    \/ includes(text, <<"h","t","t","p",":","/","/">>)       \* /https?:\/\//
    \/ includes(text, <<"h","t","t","p","s",":","/","/">>)
    \/ includes(lower, <<"w","w","w",".">>)                  \* /www\./i
    \/ includes(lower, <<".","c","o","m">>)                  \* /\.com|\.org|\.net|\.co\./i
    \/ includes(lower, <<".","o","r","g">>)
    \/ includes(lower, <<".","n","e","t">>)
    \/ includes(lower, <<".","c","o",".">>)

questionPatterns(text) ==
    LET lower == toLowerCase(text) IN
    \/ includes(text, <<"?">>)                               \* /\?/
    \/ includes(lower, <<"c","a","n"," ","y","o","u">>)      \* /can you/i
    \/ includes(lower, <<"c","o","u","l","d"," ","y","o","u">>)
    \/ includes(lower, <<"w","o","u","l","d"," ","y","o","u">>)
    \/ includes(lower, <<"w","i","l","l"," ","y","o","u">>)

hasTaskIndicators(text) ==
    LET lowerText == toLowerCase(text)
        hasEnglish == \E indicator \in englishIndicators : includes(lowerText, indicator)
        hasTime == timePatterns(text)
        hasAmount == amountPatterns(text)
        hasUrl == urlPatterns(text)
        hasQuestion == questionPatterns(text)
    IN  hasEnglish \/ hasTime \/ hasAmount \/ hasUrl \/ hasQuestion

\* String.prototype.startsWith('/')
isCommand(text) == startsWith(text, <<"/">>)

(***************************************************************************)
(* Configuration and the fixed universe of chats and messages.             *)
(***************************************************************************)
\* the JavaScript values undefined and null
Undefined == "undefined"

Null == "null"

\* a timestamp column or variable that holds null
NullTime == -1

BOT_COMMAND_CHAT == <<"B","o","t"," ","C","o","m","m","a","n","d","s">>

TestGroupName == <<"T","e","s","t"," ","G","r","o","u","p">>

MAX_MESSAGE_HISTORY_DAYS == 3

MESSAGE_FETCH_LIMIT == 2

MAX_RECONNECT_ATTEMPTS == 3

\* parseInt(process.env.SESSION_CLEAR_THRESHOLD) || 3
DefaultClearThreshold == 3

\* the largest configured threshold looked at
MaxThreshold == 4

minDelay == 1000

SESSION_RETRY_DELAY == 3000

\* the ceiling of the delay before client.initialize() in restartConnection
MaxRetryDelay == 15000

DETECT_TIMEOUT == 15000

DAY_MS == 24 * 60 * 60 * 1000

\* dashboard.js: const TOKEN_EXPIRY_MS = 5 * 60 * 1000
TOKEN_EXPIRY_MS == 300000

\* Bounds of the dashboard's clock: steps of 1 ms and of TOKEN_EXPIRY_MS
MaxMsTicks == 1

MaxExpiryTicks == 2

\* Bounds of the clock
MaxShortTicks == 1

MaxLongTicks == 1

MaxDays == 2

\* Bounds of the connection model: scheduled restarts pending at once, restart
\* procedures in flight at once, Ready events in one behaviour
MaxPending == 1

MaxInFlight == 1

MaxReady == 2

\* Bound of the restart model: calls of restartConnection under way at once
MaxOverlap == 2

\* Bound of the fetch model: the longest chat history
MaxHistory == 4

\* Date.now() when the process starts: later than the epoch by more than minDelay
StartTime == minDelay

\* the clock advances by the rate limiter's spacing or by the detection timeout
TickSteps == {minDelay, DETECT_TIMEOUT}

\* the instants the bounded clock can show
ClockValues ==
    {StartTime + a * minDelay + b * DETECT_TIMEOUT : a \in 0..MaxShortTicks, b \in 0..MaxLongTicks}

\* the concurrent activities of one behaviour: each slot runs the 'message'
\* handler once or the backfill scan once
Procs == {1, 2}

Handlers == Procs

Scans == Procs

\* everything that can call detectTask
Callers == Procs

ChatIds == {"c1", "cmd"}

\* the chats known to the transport: chat.name of client.getChatById / msg.getChat()
ChatName(c) == IF c = "c1" THEN TestGroupName ELSE BOT_COMMAND_CHAT

\* the messages the transport can deliver: id._serialized, from (the chat), body
MsgBody ==
    [ m1 |-> <<"M","e","e","t","i","n","g"," ","t","o","m","o","r","r","o","w"," ","a","t"," ","3","p","m">>,
      m2 |-> <<"T","h","a","n","k","s","!">>,
      m3 |-> <<"P","a","y"," ","$","5","0">>,
      m4 |-> <<"/","h","e","l","p">>,
      m5 |-> <<"/","m","a","r","k","_","r","e","a","d">> ]

MsgChat == [ m1 |-> "c1", m2 |-> "c1", m3 |-> "c1", m4 |-> "cmd", m5 |-> "cmd" ]

MsgIds == DOMAIN MsgBody

\* hasTaskIndicators of each message body, evaluated once
HasIndicators == [m \in MsgIds |-> hasTaskIndicators(MsgBody[m])]

\* what the classification service can answer to one request
ClassifierOutcomes == {"task", "not_task", "no_is_task", "malformed", "api_error"}

VARIABLES
    now,                  \* Date.now(), in ms
    MONITORED_CHATS,      \* in-memory list of monitored chat names
    chat_configs,         \* table chat_configs: chat_id -> row
    last_read_timestamp,  \* bot_sessions.last_read_timestamp (ms) or NullTime
    chatLog,              \* the messages of all chats, oldest first: [id, timestamp (s)]
    processed_messages,   \* table processed_messages, a bag of rows
    tasks,                \* table tasks, a bag of rows
    handlers,             \* one record per run of the 'message' handler
    scans,                \* one record per run of processStartupMessages
    detects,              \* one record per detectTask call, by caller
    rateLimiter,          \* the process-wide rateLimiter object
    requests,             \* requests sent to the classification service: how many, and when the last
    detectCalls,          \* number of detectTask invocations per message id
    AUTO_CLEAR_SESSION,   \* process.env.AUTO_CLEAR_SESSION !== 'false'
    SESSION_CLEAR_THRESHOLD, \* the configured threshold of sessionClearAttempts
    isWhatsAppConnected,
    connectionTimeout,    \* the pending connection timer: "none", "connect" (3 min), "restore" (4 min)
    reconnectAttempts,
    sessionClearAttempts,
    lastSuccessfulConnection,  \* ms, or NullTime
    sessionDir,           \* ./.wwebjs_auth: "absent", "empty", "stale" (older than 30 days), "healthy"
    client,               \* the transport client: "idle", "starting", "qr", "authenticated", "ready", "closed"
    restarts,             \* restartConnection calls in flight, by stage
    pendingRestarts,      \* timers set by setTimeout(() => restartConnection(), ...)
    connLog,              \* bookkeeping of the connection events so far
    faults,               \* how the file system and the browser answer the bot's calls
    initTimers,           \* initialization callbacks the 'ready' handler has scheduled
    ALWAYS_VERIFY_CHATS,  \* process.env.ALWAYS_VERIFY_CHATS !== 'false'
    AUTO_PROCESS_STARTUP_MESSAGES, \* process.env.AUTO_PROCESS_STARTUP_MESSAGES !== 'false'
    is_initialized,       \* chat_selection_config has a row with is_initialized
    fetchCall,            \* one call of getMessagesFromChat on a chat history: its arguments and result
    dashboardTokens,      \* dashboard.js: Map token -> expiry instant (ms)
    issuedAt,             \* when each token was generated, NullTime before that
    lastResponse,         \* the request the dashboard served last, and its answer
    login_timestamp,      \* bot_sessions.login_timestamp, NullTime while the table has no row
    processUp,            \* the bot process is running
    stoppedAt             \* when the bot process ended last, NullTime if it never did

pipeVars == <<now, MONITORED_CHATS, chat_configs, last_read_timestamp, chatLog,
              processed_messages, tasks, handlers, scans, detects, rateLimiter,
              requests, detectCalls>>

connVars == <<AUTO_CLEAR_SESSION, SESSION_CLEAR_THRESHOLD, isWhatsAppConnected, connectionTimeout, reconnectAttempts,
              sessionClearAttempts, lastSuccessfulConnection, sessionDir, client,
              restarts, pendingRestarts, connLog, faults>>

bootConfig == <<ALWAYS_VERIFY_CHATS, AUTO_PROCESS_STARTUP_MESSAGES>>

bootVars == <<initTimers, bootConfig, is_initialized>>

fetchVars == <<fetchCall>>

dashVars == <<dashboardTokens, issuedAt, lastResponse>>

sessionVars == <<login_timestamp, processUp, stoppedAt>>

vars == <<pipeVars, connVars, bootVars, fetchVars, dashVars, sessionVars>>

(***************************************************************************)
(* Datastore operations.                                                   *)
(***************************************************************************)
RowsFor(table, messageId) == {r \in BagToSet(table) : r.message_id = messageId}

\* number of rows of a table with this message_id
RowCount(table, messageId) ==
    BagCardinality([r \in RowsFor(table, messageId) |-> table[r]])

\* an INSERT without the conflict clause on a table without the unique key
InsertPlain(table, row) == table (+) SetToBag({row})

\* INSERT ... ON CONFLICT (message_id) DO NOTHING
InsertOnConflictDoNothing(table, row) ==
    IF RowsFor(table, row.message_id) # {} THEN table ELSE table (+) SetToBag({row})

\* SELECT message_id FROM processed_messages WHERE message_id = $1; rows.length > 0
isMessageProcessed(messageId) == RowsFor(processed_messages, messageId) # {}

markMessageProcessed(table, messageId, chatId, hadTaskIndicators, wasAnalyzed) ==
    InsertOnConflictDoNothing(table,
        [message_id |-> messageId, chat_id |-> chatId,
         had_task_indicators |-> hadTaskIndicators, was_analyzed |-> wasAnalyzed])

\* saveTask(task, message, chatName, senderName): reading message.id of an
\* undefined message throws before the INSERT is issued
saveTaskThrows(message) == message = Undefined

saveTask(table, task, message) ==
    IF saveTaskThrows(message) THEN table
    ELSE InsertOnConflictDoNothing(table,
            [message_id |-> message, chat_id |-> MsgChat[message], is_task |-> task.is_task])

\* SELECT ... FROM chat_configs WHERE is_monitored = true
getMonitoredChats == {c \in DOMAIN chat_configs : chat_configs[c].is_monitored}

(***************************************************************************)
(* detectTask and the rate limiter.                                        *)
(***************************************************************************)
\* the value detectTask returns for an answer of the service:
\* JSON.parse of the content, or { is_task: false, error: true } from the catch
detectTaskResult(outcome) ==
    CASE outcome = "task"       -> [is_task |-> "true"]
      [] outcome = "not_task"   -> [is_task |-> "false"]
      [] outcome = "no_is_task" -> [is_task |-> Undefined]
      [] OTHER                  -> [is_task |-> "false"]

\* the answers for which detectTask has no usable is_task
FailedOutcomes == {"no_is_task", "malformed", "api_error"}

\* a truthiness under which a missing is_task counts as true
Truthy_unlessFalse(v) == v # "false"

\* JavaScript truthiness of result.is_task ("true", "false" or undefined)
Truthy(v) == v = "true"

NoDetect == [pc |-> "none", msg |-> Null, wakeAt |-> 0, outcome |-> Null, result |-> Null]

\* slot p has not been used yet, and the slots before it have
FreeSlot(p) ==
    /\ handlers[p].pc = "idle" /\ scans[p].pc = "idle"
    /\ \A g \in Procs : g < p => (handlers[g].pc # "idle" \/ scans[g].pc # "idle")

\* rateLimiter.check(): TRUE when the caller has to sleep
mustWait(rl, t) == t - rl.lastCall < rl.minDelay

\* detectTask(message) up to its first suspension: rateLimiter.check() either
\* returns at once (lastCall = now, the request is sent) or sleeps
detectTaskCall(c, m) ==
    IF mustWait(rateLimiter, now)
    THEN /\ detects' = [detects EXCEPT ![c] =
                [pc |-> "sleep", msg |-> m,
                 wakeAt |-> now + (rateLimiter.minDelay - (now - rateLimiter.lastCall)),
                 outcome |-> Null, result |-> Null]]
         /\ detectCalls' = [detectCalls EXCEPT ![m] = @ + 1]
         /\ UNCHANGED <<rateLimiter, requests>>
    ELSE /\ detects' = [detects EXCEPT ![c] =
                [pc |-> "inflight", msg |-> m, wakeAt |-> 0, outcome |-> Null, result |-> Null]]
         /\ rateLimiter' = [rateLimiter EXCEPT !.lastCall = now]
         /\ requests' = [count |-> requests.count + 1, last |-> now]
         /\ detectCalls' = [detectCalls EXCEPT ![m] = @ + 1]

\* the sleep of rateLimiter.check() ends: lastCall = Date.now(), then detectTask
\* builds the prompt and sends the request
DetectWake(c) ==
    /\ detects[c].pc = "sleep"
    /\ now >= detects[c].wakeAt
    /\ detects' = [detects EXCEPT ![c].pc = "inflight"]
    /\ rateLimiter' = [rateLimiter EXCEPT !.lastCall = now]
    /\ requests' = [count |-> requests.count + 1, last |-> now]
    /\ UNCHANGED <<now, MONITORED_CHATS, chat_configs, last_read_timestamp, chatLog,
                   processed_messages, tasks, handlers, scans, detectCalls>>
    /\ UNCHANGED <<connVars, bootVars, fetchVars, dashVars, sessionVars>>

\* the service answers (or the call throws): detectTask returns
DetectReturn(c, outcome) ==
    /\ detects[c].pc = "inflight"
    /\ detects' = [detects EXCEPT ![c].pc = "returned",
                                  ![c].outcome = outcome,
                                  ![c].result = detectTaskResult(outcome)]
    /\ UNCHANGED <<now, MONITORED_CHATS, chat_configs, last_read_timestamp, chatLog,
                   processed_messages, tasks, handlers, scans, rateLimiter,
                   requests, detectCalls>>
    /\ UNCHANGED <<connVars, bootVars, fetchVars, dashVars, sessionVars>>

(***************************************************************************)
(* Environment: the clock.                                                 *)
(***************************************************************************)
\* the instants at which a pending timer is due: the sleep of rateLimiter.check()
\* and the 15 s timer of the live handler's race
DueTimes ==
    {detects[c].wakeAt : c \in {x \in Callers : detects[x].pc = "sleep"}}
    \cup {handlers[h].deadline :
              h \in {x \in Handlers : handlers[x].pc = "detect" /\ detects[x].pc # "returned"}}

\* time passes; a timer fires when it is due, so the clock does not pass a due time
Tick(d) ==
    /\ now + d \in ClockValues
    /\ \A t \in DueTimes : now + d <= t
    /\ now' = now + d
    /\ UNCHANGED <<MONITORED_CHATS, chat_configs, last_read_timestamp, chatLog,
                   processed_messages, tasks, handlers, scans, detects, rateLimiter,
                   requests, detectCalls>>
    /\ UNCHANGED <<connVars, bootVars, fetchVars, dashVars, sessionVars>>

\* message m is in the history of its chat
Sent(m) == \E i \in 1..Len(chatLog) : chatLog[i].id = m

(***************************************************************************)
(* Live ingestion: client.on('message').                                   *)
(***************************************************************************)
IdleHandler == [pc |-> "idle", msg |-> Null, deadline |-> 0, end |-> "none"]

Finish(h, how) == [handlers EXCEPT ![h].pc = "done", ![h].end = how]

isCommandChat(m) == includes(ChatName(MsgChat[m]), BOT_COMMAND_CHAT)

isMonitoredChat(m) == \E name \in MONITORED_CHATS : includes(ChatName(MsgChat[m]), name)

\* the transport raises 'message' (possibly again for the same message): the
\* empty-body check, msg.getChat(), command routing and the filters that
\* precede the dedup query
LiveMessage(h, m) ==
    LET body == trim(MsgBody[m])
        started == [pc |-> "isProcessed", msg |-> m, deadline |-> 0, end |-> "none"]
    IN
    /\ FreeSlot(h)
    /\ Sent(m)
    /\ handlers' = [handlers EXCEPT ![h] =
          IF Len(body) < 1 THEN [started EXCEPT !.pc = "done", !.end = "skipped"]
          ELSE IF isCommandChat(m) /\ isCommand(body) THEN [started EXCEPT !.pc = "command"]
          ELSE IF ~isCommandChat(m) /\ isCommand(body)
               THEN [started EXCEPT !.pc = "done", !.end = "skipped"]
          ELSE IF ~isMonitoredChat(m) \/ isCommandChat(m)
               THEN [started EXCEPT !.pc = "done", !.end = "skipped"]
          ELSE IF Len(body) < 3 THEN [started EXCEPT !.pc = "done", !.end = "skipped"]
          ELSE started]
    /\ UNCHANGED <<now, MONITORED_CHATS, chat_configs, last_read_timestamp, chatLog,
                   processed_messages, tasks, scans, detects, rateLimiter,
                   requests, detectCalls>>
    /\ UNCHANGED <<connVars, bootVars, fetchVars, dashVars, sessionVars>>

\* case '/mark_read' of handleCommand
MarkReadCommand == <<"/","m","a","r","k","_","r","e","a","d">>

\* handleCommand and msg.reply: /mark_read calls updateLastReadTimestamp();
\* /help has no effect on the pipeline state
LiveCommand(h) ==
    LET command == toLowerCase(trim(MsgBody[handlers[h].msg])) IN
    /\ handlers[h].pc = "command"
    /\ handlers' = Finish(h, "command")
    /\ last_read_timestamp' = IF command = MarkReadCommand THEN now ELSE last_read_timestamp
    /\ UNCHANGED <<now, MONITORED_CHATS, chat_configs, chatLog,
                   processed_messages, tasks, scans, detects, rateLimiter,
                   requests, detectCalls>>
    /\ UNCHANGED <<connVars, bootVars, fetchVars, dashVars, sessionVars>>

\* the SELECT of isMessageProcessed runs
LiveIsProcessed(h) ==
    /\ handlers[h].pc = "isProcessed"
    /\ handlers' =
          IF isMessageProcessed(handlers[h].msg)
          THEN Finish(h, "duplicate")
          ELSE [handlers EXCEPT ![h].pc = "mark1"]
    /\ UNCHANGED <<now, MONITORED_CHATS, chat_configs, last_read_timestamp, chatLog,
                   processed_messages, tasks, scans, detects, rateLimiter,
                   requests, detectCalls>>
    /\ UNCHANGED <<connVars, bootVars, fetchVars, dashVars, sessionVars>>

\* the first mark, going on to the classifier whatever hasTaskIndicators returned
LiveMark1_ungated(h) ==
    LET m == handlers[h].msg IN
    /\ handlers[h].pc = "mark1"
    /\ processed_messages' =
          markMessageProcessed(processed_messages, m, MsgChat[m], HasIndicators[m], FALSE)
    /\ handlers' = [handlers EXCEPT ![h].pc = "mark2"]
    /\ UNCHANGED <<now, MONITORED_CHATS, chat_configs, last_read_timestamp, chatLog,
                   tasks, scans, detects, rateLimiter, requests, detectCalls>>
    /\ UNCHANGED <<connVars, bootVars, fetchVars, dashVars, sessionVars>>

\* markMessageProcessed(messageId, msg.from, hasIndicators, false)
LiveMark1(h) ==
    LET m == handlers[h].msg
        hasIndicators == HasIndicators[m]
    IN
    /\ handlers[h].pc = "mark1"
    /\ processed_messages' =
          markMessageProcessed(processed_messages, m, MsgChat[m], hasIndicators, FALSE)
    /\ handlers' =
          IF ~hasIndicators
          THEN Finish(h, "no_indicators")
          ELSE [handlers EXCEPT ![h].pc = "mark2"]
    /\ UNCHANGED <<now, MONITORED_CHATS, chat_configs, last_read_timestamp, chatLog,
                   tasks, scans, detects, rateLimiter, requests, detectCalls>>
    /\ UNCHANGED <<connVars, bootVars, fetchVars, dashVars, sessionVars>>

\* markMessageProcessed(messageId, msg.from, true, true), then the race of
\* detectTask(msg) against the 15 s timer starts
LiveMark2(h) ==
    LET m == handlers[h].msg IN
    /\ handlers[h].pc = "mark2"
    /\ processed_messages' =
          markMessageProcessed(processed_messages, m, MsgChat[m], TRUE, TRUE)
    /\ detectTaskCall(h, m)
    /\ handlers' = [handlers EXCEPT ![h].pc = "detect",
                                    ![h].deadline = now + DETECT_TIMEOUT]
    /\ UNCHANGED <<now, MONITORED_CHATS, chat_configs, last_read_timestamp, chatLog,
                   tasks, scans>>
    /\ UNCHANGED <<connVars, bootVars, fetchVars, dashVars, sessionVars>>

\* a handler that acts on the classifier's result whenever it arrives, the
\* 15 s timer having fired or not
LiveDetectResult_afterTimeout(h) ==
    /\ \/ handlers[h].pc = "detect"
       \/ handlers[h].pc = "done" /\ handlers[h].end = "detect_failed"
    /\ detects[h].pc = "returned"
    /\ handlers' =
          IF Truthy(detects[h].result.is_task)
          THEN [handlers EXCEPT ![h].pc = "saveTask"]
          ELSE Finish(h, "not_task")
    /\ detects' = [detects EXCEPT ![h].pc = "settled",
                                  ![h].outcome = IF @ \in FailedOutcomes THEN "failed" ELSE @,
                                  ![h].result = IF Truthy(@.is_task) THEN @ ELSE Null]
    /\ UNCHANGED <<now, MONITORED_CHATS, chat_configs, last_read_timestamp, chatLog,
                   processed_messages, tasks, scans, rateLimiter,
                   requests, detectCalls>>
    /\ UNCHANGED <<connVars, bootVars, fetchVars, dashVars, sessionVars>>

\* detectTask settled first: result.is_task decides
LiveDetectResult(h) ==
    /\ handlers[h].pc = "detect"
    /\ detects[h].pc = "returned"
    /\ handlers' =
          IF Truthy(detects[h].result.is_task)
          THEN [handlers EXCEPT ![h].pc = "saveTask"]
          ELSE Finish(h, "not_task")
    /\ detects' = [detects EXCEPT ![h].pc = "settled",
                                  ![h].outcome = IF @ \in FailedOutcomes THEN "failed" ELSE @,
                                  ![h].result = IF Truthy(@.is_task) THEN @ ELSE Null]
    /\ UNCHANGED <<now, MONITORED_CHATS, chat_configs, last_read_timestamp, chatLog,
                   processed_messages, tasks, scans, rateLimiter,
                   requests, detectCalls>>
    /\ UNCHANGED <<connVars, bootVars, fetchVars, dashVars, sessionVars>>

\* the 15 s timer settled first: the rejection is caught and logged
LiveDetectTimeout(h) ==
    /\ handlers[h].pc = "detect"
    /\ detects[h].pc # "returned"
    /\ now >= handlers[h].deadline
    /\ handlers' = Finish(h, "detect_failed")
    /\ UNCHANGED <<now, MONITORED_CHATS, chat_configs, last_read_timestamp, chatLog,
                   processed_messages, tasks, scans, detects, rateLimiter,
                   requests, detectCalls>>
    /\ UNCHANGED <<connVars, bootVars, fetchVars, dashVars, sessionVars>>

\* msg.getContact(), then saveTask(result, msg, chatName, senderName); a
\* failing getContact is caught by the inner try
LiveSaveTask(h, contactOk) ==
    /\ handlers[h].pc = "saveTask"
    /\ tasks' = IF contactOk THEN saveTask(tasks, detects[h].result, handlers[h].msg)
                ELSE tasks
    /\ handlers' = Finish(h, IF contactOk THEN "task_saved" ELSE "detect_failed")
    /\ UNCHANGED <<now, MONITORED_CHATS, chat_configs, last_read_timestamp, chatLog,
                   processed_messages, scans, detects, rateLimiter,
                   requests, detectCalls>>
    /\ UNCHANGED <<connVars, bootVars, fetchVars, dashVars, sessionVars>>
(***************************************************************************)
(* Backfill: getMessagesFromChat, processMessagesForTasks and              *)
(* processStartupMessages.                                                 *)
(***************************************************************************)
\* the history of one chat, oldest first
History(chatId) == SelectSeq(chatLog, LAMBDA e : MsgChat[e.id] = chatId)

\* chat.fetchMessages({ limit }): the limit most recent messages
fetchMessages(hist, limit) ==
    IF Len(hist) <= limit THEN hist
    ELSE SubSeq(hist, Len(hist) - limit + 1, Len(hist))

\* the cutoff of getMessagesFromChat; a null cutoff compares as 0
earliestTimestamp(fromTimestamp, maxDays, t) ==
    LET maxDaysAgo == t - maxDays * DAY_MS IN
    IF maxDays # 0 /\ fromTimestamp # NullTime /\ fromTimestamp < maxDaysAgo
    THEN maxDaysAgo
    ELSE fromTimestamp

\* a filter that leaves out the message at the cutoff
AtOrAfter_strict(e, cutoff) == e.timestamp * 1000 > (IF cutoff = NullTime THEN 0 ELSE cutoff)

AtOrAfter(e, cutoff) == e.timestamp * 1000 >= (IF cutoff = NullTime THEN 0 ELSE cutoff)

filterMessages(messages, cutoff) == SelectSeq(messages, LAMBDA e : AtOrAfter(e, cutoff))

\* a growth loop that stops after the first page
fetchLoop_firstPage(hist, cutoff, limit, fetchLimit) ==
    filterMessages(fetchMessages(hist, limit), cutoff)

\* the window-growth loop
RECURSIVE fetchLoop(_, _, _, _)
fetchLoop(hist, cutoff, limit, fetchLimit) ==
    LET messages == fetchMessages(hist, limit)
        filteredMessages == filterMessages(messages, cutoff)
    IN IF Len(filteredMessages) = Len(messages) /\ Len(messages) = limit
       THEN fetchLoop(hist, cutoff, limit + fetchLimit, fetchLimit)
       ELSE filteredMessages

\* a growth loop that raises the limit by one message per refetch
RECURSIVE fetchLimits_byOne(_, _, _, _)
fetchLimits_byOne(hist, cutoff, limit, fetchLimit) ==
    LET messages == fetchMessages(hist, limit)
        filteredMessages == filterMessages(messages, cutoff)
    IN IF Len(filteredMessages) = Len(messages) /\ Len(messages) = limit
       THEN <<limit>> \o fetchLimits_byOne(hist, cutoff, limit + 1, fetchLimit)
       ELSE <<limit>>

\* the limits of the chat.fetchMessages calls the window-growth loop makes, in order
RECURSIVE fetchLimits(_, _, _, _)
fetchLimits(hist, cutoff, limit, fetchLimit) ==
    LET messages == fetchMessages(hist, limit)
        filteredMessages == filterMessages(messages, cutoff)
    IN IF Len(filteredMessages) = Len(messages) /\ Len(messages) = limit
       THEN <<limit>> \o fetchLimits(hist, cutoff, limit + fetchLimit, fetchLimit)
       ELSE <<limit>>

\* the ids of the messages getMessagesFromChat returns, oldest first
getMessagesFromChat(chatId, fromTimestamp, maxDays, fetchLimit) ==
    LET found == fetchLoop(History(chatId),
                           earliestTimestamp(fromTimestamp, maxDays, now),
                           fetchLimit, fetchLimit)
    IN [i \in 1..Len(found) |-> found[i].id]

\* msg.timestamp of the messages of the fetch model, in seconds
FetchStamps == {0, 1, 2}

\* the chat histories of the fetch model: in timestamp order, oldest first
Histories ==
    LET shapes == UNION {[1..n -> FetchStamps] : n \in 0..MaxHistory}
        ordered == {f \in shapes : \A i \in 1..(Len(f) - 1) : f[i] <= f[i + 1]}
    IN {[i \in 1..Len(f) |-> [id |-> i, timestamp |-> f[i]]] : f \in ordered}

\* the checkpoints (ms) handed to getMessagesFromChat
FromTimestamps == {NullTime, 0, 1000, 1001, 2000, 2001}

\* maxDays: null (0), one day, or MAX_MESSAGE_HISTORY_DAYS
MaxDaysValues == {0, 1, MAX_MESSAGE_HISTORY_DAYS}

NoFetch == [pc |-> "none", hist |-> <<>>, fromTimestamp |-> NullTime, maxDays |-> 0,
            fetchLimit |-> 1, cutoff |-> NullTime, out |-> <<>>, limits |-> <<>>]

\* getMessagesFromChat on the history of the call, with chat.fetchMessages
\* answering the limit most recent messages
GetMessagesFromChat ==
    LET cutoff == earliestTimestamp(fetchCall.fromTimestamp, fetchCall.maxDays, now) IN
    /\ fetchCall.pc = "called"
    /\ fetchCall' = [fetchCall EXCEPT
                        !.pc = "returned",
                        !.cutoff = cutoff,
                        !.out = fetchLoop(fetchCall.hist, cutoff,
                                          fetchCall.fetchLimit, fetchCall.fetchLimit),
                        !.limits = fetchLimits(fetchCall.hist, cutoff,
                                               fetchCall.fetchLimit, fetchCall.fetchLimit)]
    /\ UNCHANGED <<pipeVars, connVars, bootVars, dashVars, sessionVars>>

MediaOther == <<"[","M","e","d","i","a","/","O","t","h","e","r","]">>

\* body: msg.body || '[Media/Other]'
scanBody(m) == IF Len(MsgBody[m]) = 0 THEN MediaOther ELSE MsgBody[m]

\* hasTaskIndicators(message.body) of processMessagesForTasks, evaluated once
ScanHasIndicators == [m \in MsgIds |-> hasTaskIndicators(scanBody(m))]

\* ORDER BY chat_name
ChatRank == [cmd |-> 1, c1 |-> 2]

RECURSIVE OrderedChats(_)
OrderedChats(S) ==
    IF S = {} THEN <<>>
    ELSE LET c == CHOOSE x \in S : \A y \in S : ChatRank[x] <= ChatRank[y]
         IN <<c>> \o OrderedChats(S \ {c})

IdleScan == [pc |-> "idle", choice |-> 0, pass |-> 1, allChats |-> <<>>, chats |-> <<>>,
             msgs |-> <<>>, seen |-> {}, lastRead |-> NullTime, totalMessages |-> 0,
             totalTasks |-> 0, failedChats |-> 0]

\* the scan record when processStartupMessages has read the operator's choice
\* (false when there is no checkpoint), the monitored chats and the checkpoint
startedScan(answer, configs) ==
    LET choice == IF last_read_timestamp = NullTime THEN 0 ELSE answer
        monitoredChats == OrderedChats({c \in DOMAIN configs : configs[c].is_monitored})
    IN IF choice = 3 \/ Len(monitoredChats) = 0
       THEN [IdleScan EXCEPT !.pc = "done", !.choice = choice]
       ELSE [pc |-> "chats", choice |-> choice, pass |-> 1,
             allChats |-> monitoredChats, chats |-> monitoredChats,
             msgs |-> <<>>, seen |-> {},
             lastRead |-> last_read_timestamp,
             totalMessages |-> 0, totalTasks |-> 0, failedChats |-> 0]

\* processStartupMessages starts
ScanStart(s, answer) ==
    /\ FreeSlot(s)
    /\ scans' = [scans EXCEPT ![s] = startedScan(answer, chat_configs)]
    /\ UNCHANGED <<now, MONITORED_CHATS, chat_configs, last_read_timestamp, chatLog,
                   processed_messages, tasks, handlers, detects, rateLimiter,
                   requests, detectCalls>>
    /\ UNCHANGED <<connVars, bootVars, fetchVars, dashVars, sessionVars>>

\* one iteration of the chat loop: fetch the chat's messages since the cutoff
ScanChat(s) ==
    LET sc == scans[s]
        messages == getMessagesFromChat(Head(sc.chats), sc.lastRead,
                                        MAX_MESSAGE_HISTORY_DAYS, MESSAGE_FETCH_LIMIT)
        total == IF sc.pass = 1 THEN sc.totalMessages + Len(messages) ELSE sc.totalMessages
    IN
    /\ sc.pc = "chats"
    /\ Len(sc.chats) > 0
    /\ scans' =
          IF Len(messages) > 0 /\ (sc.choice = 1 \/ sc.pass = 2)
          THEN [scans EXCEPT ![s].pc = "msgs", ![s].msgs = messages,
                             ![s].totalMessages = total]
          ELSE [scans EXCEPT ![s].chats = Tail(sc.chats), ![s].totalMessages = total]
    /\ UNCHANGED <<now, MONITORED_CHATS, chat_configs, last_read_timestamp, chatLog,
                   processed_messages, tasks, handlers, detects, rateLimiter,
                   requests, detectCalls>>
    /\ UNCHANGED <<connVars, bootVars, fetchVars, dashVars, sessionVars>>

\* one iteration of the chat loop in which client.getChatById or
\* chat.fetchMessages throws: getMessagesFromChat logs the error and returns [],
\* and the loop goes on with the next chat
ScanChatFails(s) ==
    LET sc == scans[s] IN
    /\ sc.pc = "chats"
    /\ Len(sc.chats) > 0
    /\ scans' = [scans EXCEPT ![s].chats = Tail(sc.chats), ![s].failedChats = 1]
    /\ UNCHANGED <<now, MONITORED_CHATS, chat_configs, last_read_timestamp, chatLog,
                   processed_messages, tasks, handlers, detects, rateLimiter,
                   requests, detectCalls>>
    /\ UNCHANGED <<connVars, bootVars, fetchVars, dashVars, sessionVars>>

\* the scan record after the current message: next message, or next chat
AfterMessage(sc, detected) ==
    IF Len(sc.msgs) > 1
    THEN [sc EXCEPT !.pc = "msgs", !.msgs = Tail(sc.msgs),
                    !.seen = @ \cup {Head(sc.msgs)},
                    !.totalTasks = sc.totalTasks + detected]
    ELSE [sc EXCEPT !.pc = "chats", !.msgs = <<>>, !.chats = Tail(sc.chats),
                    !.seen = @ \cup {Head(sc.msgs)},
                    !.totalTasks = sc.totalTasks + detected]

\* processMessagesForTasks, one message: the pre-filter, then detectTask
\* when the message has indicators
ScanMessage(s) ==
    LET sc == scans[s]
        m == Head(sc.msgs)
        hasIndicators == ScanHasIndicators[m]
    IN
    /\ sc.pc = "msgs"
    /\ IF hasIndicators
       THEN /\ detectTaskCall(s, m)
            /\ scans' = [scans EXCEPT ![s].pc = "detect"]
       ELSE /\ scans' = [scans EXCEPT ![s].pc = "mark"]
            /\ UNCHANGED <<detects, rateLimiter, requests, detectCalls>>
    /\ UNCHANGED <<now, MONITORED_CHATS, chat_configs, last_read_timestamp, chatLog,
                   processed_messages, tasks, handlers>>
    /\ UNCHANGED <<connVars, bootVars, fetchVars, dashVars, sessionVars>>

\* detectTask returned: for a task, saveTask is called with one argument
\* (its message parameter is undefined); what it throws is caught per message
ScanDetectResult(s) ==
    LET sc == scans[s]
        analysis == detects[s].result
    IN
    /\ sc.pc = "detect"
    /\ detects[s].pc = "returned"
    /\ detects' = [detects EXCEPT ![s] = NoDetect]
    /\ IF Truthy(analysis.is_task)
       THEN /\ tasks' = saveTask(tasks, [is_task |-> Undefined], Undefined)
            /\ scans' = IF saveTaskThrows(Undefined)
                        THEN [scans EXCEPT ![s] = AfterMessage(sc, 0)]
                        ELSE [scans EXCEPT ![s].pc = "markTask"]
       ELSE /\ scans' = [scans EXCEPT ![s].pc = "mark"]
            /\ UNCHANGED tasks
    /\ UNCHANGED <<now, MONITORED_CHATS, chat_configs, last_read_timestamp, chatLog,
                   processed_messages, handlers, rateLimiter, requests, detectCalls>>
    /\ UNCHANGED <<connVars, bootVars, fetchVars, dashVars, sessionVars>>

\* markMessageProcessed(message.id, message.chatId, hasIndicators, hasIndicators)
ScanMark(s) ==
    LET sc == scans[s]
        m == Head(sc.msgs)
        hasIndicators == ScanHasIndicators[m]
    IN
    /\ sc.pc \in {"mark", "markTask"}
    /\ processed_messages' =
          markMessageProcessed(processed_messages, m, MsgChat[m], hasIndicators, hasIndicators)
    /\ scans' = [scans EXCEPT ![s] = AfterMessage(sc, IF sc.pc = "markTask" THEN 1 ELSE 0)]
    /\ UNCHANGED <<now, MONITORED_CHATS, chat_configs, last_read_timestamp, chatLog,
                   tasks, handlers, detects, rateLimiter, requests, detectCalls>>
    /\ UNCHANGED <<connVars, bootVars, fetchVars, dashVars, sessionVars>>

\* a checkpoint update that does not look at the number of messages found
checkpointAfterScan_always(sc) == now

\* choice 1 after the summary: updateLastReadTimestamp() sets NOW() when
\* messages were found
checkpointAfterScan(sc) ==
    IF sc.totalMessages > 0 THEN now ELSE last_read_timestamp

\* after the chat loop: the summary, the checkpoint update, or the second
\* pass of choice 2 when the operator answers yes
ScanFinish(s, shouldProcess) ==
    LET sc == scans[s] IN
    /\ sc.pc = "chats"
    /\ Len(sc.chats) = 0
    /\ IF sc.pass = 1 /\ sc.choice = 1
       THEN /\ last_read_timestamp' = checkpointAfterScan(sc)
            /\ scans' = [scans EXCEPT ![s].pc = "done"]
       ELSE IF sc.pass = 1 /\ sc.choice = 2 /\ sc.totalMessages > 0 /\ shouldProcess
       THEN /\ scans' = [scans EXCEPT ![s].pass = 2, ![s].chats = sc.allChats]
            /\ UNCHANGED last_read_timestamp
       ELSE IF sc.pass = 2
       THEN /\ last_read_timestamp' = now
            /\ scans' = [scans EXCEPT ![s].pc = "done"]
       ELSE /\ scans' = [scans EXCEPT ![s].pc = "done"]
            /\ UNCHANGED last_read_timestamp
    /\ UNCHANGED <<now, MONITORED_CHATS, chat_configs, chatLog,
                   processed_messages, tasks, handlers, detects, rateLimiter,
                   requests, detectCalls>>
    /\ UNCHANGED <<connVars, bootVars, fetchVars, dashVars, sessionVars>>

(***************************************************************************)
(* The dashboard server (dashboard.js): temporal tokens.                   *)
(***************************************************************************)
\* the values of crypto.randomBytes(32).toString('hex') the server can draw
Tokens == {"t1", "t2"}

\* what a request can carry as req.query.token: a generated token, a string
\* the server never generated, or nothing
RequestTokens == Tokens \cup {"tx", Undefined}

\* the routes behind app.use('/api', validateToken)
ApiRoutes ==
    {"GET /api/tasks", "POST /api/tasks/:id/complete", "DELETE /api/tasks/:id",
     "GET /api/chats", "POST /api/chats/:chatId/monitor", "POST /api/refresh-chats"}

\* the routes behind validateToken
GuardedRoutes == ApiRoutes \cup {"GET /dashboard"}

\* the instants the dashboard's clock can show
DashClock ==
    {StartTime + a + b * TOKEN_EXPIRY_MS : a \in 0..MaxMsTicks, b \in 0..MaxExpiryTicks}

\* dashboardTokens without the entry of token
TokenDeleted(map, token) == [k \in DOMAIN map \ {token} |-> map[k]]

\* a validity test that does not look at the expiry instant
isValidToken_anyKnown(map, token, t) == token # Undefined /\ token \in DOMAIN map

\* isValidToken(token): its result
isValidToken(map, token, t) ==
    IF token = Undefined \/ token \notin DOMAIN map THEN FALSE
    ELSE IF t > map[token] THEN FALSE
    ELSE TRUE

\* a validation that leaves an expired token in the map
afterValidation_keeps(map, token, t) == map

\* isValidToken(token): the map it leaves, an expired token deleted
afterValidation(map, token, t) ==
    IF token # Undefined /\ token \in DOMAIN map /\ t > map[token]
    THEN TokenDeleted(map, token)
    ELSE map

\* cleanupExpiredTokens()
cleanupExpiredTokens(map, t) == [k \in {x \in DOMAIN map : ~(t > map[x])} |-> map[k]]

NoResponse == [n |-> 0, route |-> "none", token |-> Undefined, status |-> 0, queries |-> 0]

\* the dashboard server after it started: no token yet
DashStart ==
    /\ dashboardTokens = << >>
    /\ issuedAt = [k \in Tokens |-> NullTime]
    /\ lastResponse = NoResponse

(***************************************************************************)
(* The pipeline specification.                                             *)
(***************************************************************************)
\* the chat histories: every message of the universe has arrived in the second
\* in which the process starts
InitialChatLog ==
    << [id |-> "m1", timestamp |-> StartTime \div 1000],
       [id |-> "m2", timestamp |-> StartTime \div 1000],
       [id |-> "m3", timestamp |-> StartTime \div 1000],
       [id |-> "m4", timestamp |-> StartTime \div 1000] >>

\* the pipeline when the process starts, over the chat histories of log
\* chat_configs after an earlier run: both chats discovered, the group monitored
DiscoveredConfigs ==
    [c \in ChatIds |-> [chat_name |-> ChatName(c), is_monitored |-> c = "c1",
                        is_group |-> TRUE, participant_count |-> 3]]

\* the process has been running since StartTime, when initBotSession() inserted
\* the bot_sessions row
SessionRunning ==
    /\ last_read_timestamp = StartTime
    /\ login_timestamp = StartTime
    /\ processUp = TRUE
    /\ stoppedAt = NullTime

PipeStartWith(log, configs) ==
    /\ now = StartTime
    /\ MONITORED_CHATS = {TestGroupName}
    /\ chat_configs = configs
    /\ chatLog = log
    /\ processed_messages = EmptyBag
    /\ tasks = EmptyBag
    /\ handlers = [h \in Handlers |-> IdleHandler]
    /\ scans = [s \in Scans |-> IdleScan]
    /\ detects = [c \in Callers |-> NoDetect]
    /\ rateLimiter = [lastCall |-> 0, minDelay |-> minDelay]
    /\ requests = [count |-> 0, last |-> 0]
    /\ detectCalls = [m \in MsgIds |-> 0]
    /\ DashStart

PipeStart(log) == PipeStartWith(log, DiscoveredConfigs) /\ SessionRunning

PipeInit == PipeStart(InitialChatLog) /\ fetchCall = NoFetch

NextPipe ==
    \/ \E d \in TickSteps : Tick(d)
    \/ \E h \in Handlers, m \in MsgIds : LiveMessage(h, m)
    \/ \E h \in Handlers : LiveCommand(h)
    \/ \E h \in Handlers : LiveIsProcessed(h)
    \/ \E h \in Handlers : LiveMark1(h)
    \/ \E h \in Handlers : LiveMark2(h)
    \/ \E h \in Handlers : LiveDetectResult(h)
    \/ \E h \in Handlers : LiveDetectTimeout(h)
    \/ \E h \in Handlers, contactOk \in BOOLEAN : LiveSaveTask(h, contactOk)
    \/ \E s \in Scans, answer \in 1..3 : ScanStart(s, answer)
    \/ \E s \in Scans : ScanChat(s)
    \/ \E s \in Scans : ScanMessage(s)
    \/ \E s \in Scans : ScanDetectResult(s)
    \/ \E s \in Scans : ScanMark(s)
    \/ \E s \in Scans, shouldProcess \in BOOLEAN : ScanFinish(s, shouldProcess)
    \/ \E c \in Callers : DetectWake(c)
    \/ \E c \in Callers, outcome \in ClassifierOutcomes : DetectReturn(c, outcome)


(***************************************************************************)
(* Connection lifecycle: session checks, restartConnection, the transport  *)
(* events and the connection timeout.                                      *)
(***************************************************************************)
\* isSessionHealthy(): the directory exists, is not empty and is at most 30 days old
isSessionHealthy == sessionDir = "healthy"

\* no successful connection in the last 24 hours
noRecentSuccess ==
    lastSuccessfulConnection # NullTime /\ now - lastSuccessfulConnection > DAY_MS

\* a decision that clears whenever auto-clearing is on
shouldClearSession_eager(attempts) == AUTO_CLEAR_SESSION

\* a decision that ignores the AUTO_CLEAR_SESSION switch
shouldClearSession_unswitched(attempts) ==
    attempts >= SESSION_CLEAR_THRESHOLD \/ noRecentSuccess

shouldClearSession(attempts) ==
    IF ~AUTO_CLEAR_SESSION THEN FALSE
    ELSE IF attempts >= SESSION_CLEAR_THRESHOLD THEN TRUE
    ELSE IF noRecentSuccess THEN TRUE
    ELSE FALSE

\* clearSessionSafely(): TRUE when it removes the directory and zeroes the counters
clearSessionRemoves == sessionDir # "absent"

\* a clearSessionSafely() that gives up when the backup copy fails
clearSessionSafely_backupRequired(dir, backupFails) ==
    IF dir = "absent" THEN [fsOps |-> << >>, dir |-> dir, resets |-> FALSE]
    ELSE IF backupFails THEN [fsOps |-> <<"cpSync_throws">>, dir |-> dir, resets |-> FALSE]
    ELSE [fsOps |-> <<"cpSync", "rmSync">>, dir |-> "absent", resets |-> TRUE]

\* clearSessionSafely() on session directory dir: the file-system calls it makes
\* in order, the directory afterwards, and whether it zeroes the two counters
clearSessionSafely(dir, backupFails) ==
    IF dir = "absent" THEN [fsOps |-> << >>, dir |-> dir, resets |-> FALSE]
    ELSE [fsOps |-> <<IF backupFails THEN "cpSync_throws" ELSE "cpSync", "rmSync">>,
          dir |-> "absent", resets |-> TRUE]

\* what the environment does to the calls the bot makes: whether fs.cpSync of
\* the session directory throws, and how client.destroy() ends
DestroyOutcomes == {"resolves", "throws", "hangs"}

Faults == [backupFails : BOOLEAN, destroy : DestroyOutcomes]

NoFaults == [backupFails |-> FALSE, destroy |-> "resolves"]

\* a restartConnection() that awaits client.destroy() alone
destroyRaceSettles_unraced(outcome) == outcome # "hangs"

\* await Promise.race([client.destroy(), <reject after 10 s>]) inside try/catch:
\* the await returns control whether destroy resolves, throws or never settles
destroyRaceSettles(outcome) ==
    \/ outcome = "resolves"
    \/ outcome = "throws"
    \/ outcome = "hangs"

NoClear == [by |-> "none", atThreshold |-> FALSE, healthy |-> FALSE, sinceSuccess |-> FALSE,
            fsOps |-> << >>]

ConnLogInit == [initsSinceReady |-> 0, readys |-> 0, refused |-> FALSE, aged |-> FALSE,
                lastClear |-> NoClear]

InFlight == restarts.destroying + restarts.waitInit

\* a ceiling check that lets the attempt at the ceiling through
restartConnectionAdmits_past == ~(reconnectAttempts > MAX_RECONNECT_ATTEMPTS)

\* the ceiling check at the head of restartConnection()
restartConnectionAdmits == ~(reconnectAttempts >= MAX_RECONNECT_ATTEMPTS)

\* a call of restartConnection: admitted, it increments the counter, cancels the
\* connection timer, marks the connection down and goes on to destroy the client
restartConnectionEnter(admit) ==
    /\ reconnectAttempts' = IF admit THEN reconnectAttempts + 1 ELSE reconnectAttempts
    /\ isWhatsAppConnected' = IF admit THEN FALSE ELSE isWhatsAppConnected
    /\ restarts' = IF admit THEN [restarts EXCEPT !.destroying = @ + 1] ELSE restarts

\* a timer set by setTimeout(() => restartConnection(), ...) fires, with at most
\* cap calls of restartConnection under way afterwards
RestartRequestUpTo(cap) ==
    LET admit == restartConnectionAdmits IN
    /\ pendingRestarts > 0
    /\ admit => InFlight < cap
    /\ pendingRestarts' = pendingRestarts - 1
    /\ restartConnectionEnter(admit)
    /\ connectionTimeout' = IF admit THEN "none" ELSE connectionTimeout
    /\ connLog' = IF admit THEN connLog ELSE [connLog EXCEPT !.refused = TRUE]
    /\ UNCHANGED <<faults, AUTO_CLEAR_SESSION, SESSION_CLEAR_THRESHOLD, sessionClearAttempts, lastSuccessfulConnection,
                   sessionDir, client>>
    /\ UNCHANGED <<pipeVars, bootVars, fetchVars, dashVars, sessionVars>>

RestartRequest == RestartRequestUpTo(MaxInFlight)

\* the connection timer fires: if (!isWhatsAppConnected) restartConnection()
ConnectionTimeoutFiresUpTo(cap) ==
    LET admit == ~isWhatsAppConnected /\ restartConnectionAdmits IN
    /\ connectionTimeout # "none"
    /\ admit => InFlight < cap
    /\ restartConnectionEnter(admit)
    /\ connectionTimeout' = "none"
    /\ connLog' = IF ~isWhatsAppConnected /\ ~admit
                  THEN [connLog EXCEPT !.refused = TRUE]
                  ELSE connLog
    /\ UNCHANGED <<faults, AUTO_CLEAR_SESSION, SESSION_CLEAR_THRESHOLD, sessionClearAttempts, lastSuccessfulConnection,
                   sessionDir, client, pendingRestarts>>
    /\ UNCHANGED <<pipeVars, bootVars, fetchVars, dashVars, sessionVars>>

ConnectionTimeoutFires == ConnectionTimeoutFiresUpTo(MaxInFlight)

\* const retryDelay = Math.min(SESSION_RETRY_DELAY * sessionClearAttempts, 15000)
retryDelay(attempts) ==
    IF SESSION_RETRY_DELAY * attempts < MaxRetryDelay
    THEN SESSION_RETRY_DELAY * attempts
    ELSE MaxRetryDelay

\* restartConnection after client.destroy() settled or was abandoned and the
\* browser processes were killed: the session decision, then the timer for
\* the re-initialize is set
RestartDestroyed ==
    LET attempts == sessionClearAttempts + 1
        clear == shouldClearSession(attempts) /\ ~isSessionHealthy
        cleared == clearSessionSafely(sessionDir, faults.backupFails)
        removes == clear /\ cleared.resets
    IN
    /\ restarts.destroying > 0
    /\ destroyRaceSettles(faults.destroy)
    /\ restarts' = [destroying |-> restarts.destroying - 1, waitInit |-> restarts.waitInit + 1]
    /\ client' = "idle"
    /\ sessionDir' = IF clear THEN cleared.dir ELSE sessionDir
    /\ sessionClearAttempts' =
          IF removes THEN 0
          ELSE IF shouldClearSession(attempts) /\ isSessionHealthy /\ attempts > 1
               THEN (IF attempts - 1 > 1 THEN attempts - 1 ELSE 1)
          ELSE attempts
    /\ reconnectAttempts' = IF removes THEN 0 ELSE reconnectAttempts
    /\ connLog' = IF clear /\ cleared.fsOps # << >>
                  THEN [connLog EXCEPT !.refused = IF removes THEN FALSE ELSE @,
                           !.lastClear = [by |-> "restart",
                                          atThreshold |-> attempts >= SESSION_CLEAR_THRESHOLD,
                                          healthy |-> isSessionHealthy,
                                          sinceSuccess |-> noRecentSuccess,
                                          fsOps |-> cleared.fsOps]]
                  ELSE connLog
    /\ UNCHANGED <<faults, AUTO_CLEAR_SESSION, SESSION_CLEAR_THRESHOLD, isWhatsAppConnected, connectionTimeout,
                   lastSuccessfulConnection, pendingRestarts>>
    /\ UNCHANGED <<pipeVars, bootVars, fetchVars, dashVars, sessionVars>>

\* the re-initialize timer fires: startConnectionTimeout(), client.initialize();
\* a throwing initialize schedules another restartConnection
RestartInit(throws) ==
    /\ restarts.waitInit > 0
    /\ throws => pendingRestarts < MaxPending
    /\ restarts' = [restarts EXCEPT !.waitInit = @ - 1]
    /\ connectionTimeout' = "connect"
    /\ client' = IF throws THEN client ELSE "starting"
    /\ pendingRestarts' = IF throws THEN pendingRestarts + 1 ELSE pendingRestarts
    /\ connLog' = [connLog EXCEPT !.initsSinceReady =
                      IF @ > MAX_RECONNECT_ATTEMPTS THEN @ ELSE @ + 1]
    /\ UNCHANGED <<faults, AUTO_CLEAR_SESSION, SESSION_CLEAR_THRESHOLD, isWhatsAppConnected, reconnectAttempts,
                   sessionClearAttempts, lastSuccessfulConnection, sessionDir>>
    /\ UNCHANGED <<pipeVars, bootVars, fetchVars, dashVars, sessionVars>>

\* client.on('qr')
EvQr ==
    /\ client \in {"starting", "qr"}
    /\ isWhatsAppConnected' = FALSE
    /\ connectionTimeout' = "connect"
    /\ client' = "qr"
    /\ UNCHANGED <<faults, AUTO_CLEAR_SESSION, SESSION_CLEAR_THRESHOLD, reconnectAttempts, sessionClearAttempts,
                   lastSuccessfulConnection, sessionDir, restarts, pendingRestarts, connLog>>
    /\ UNCHANGED <<pipeVars, bootVars, fetchVars, dashVars, sessionVars>>

\* client.on('authenticated'); the transport has saved the session by then
EvAuthenticated ==
    /\ client \in {"starting", "qr"}
    /\ isWhatsAppConnected' = FALSE
    /\ connectionTimeout' = "restore"
    /\ client' = "authenticated"
    /\ sessionDir' = IF sessionDir \in {"absent", "empty"} THEN "healthy" ELSE sessionDir
    /\ UNCHANGED <<faults, AUTO_CLEAR_SESSION, SESSION_CLEAR_THRESHOLD, reconnectAttempts, sessionClearAttempts,
                   lastSuccessfulConnection, restarts, pendingRestarts, connLog>>
    /\ UNCHANGED <<pipeVars, bootVars, fetchVars, dashVars, sessionVars>>

\* client.on('auth_failure')
EvAuthFailure ==
    /\ client \in {"starting", "qr"}
    /\ pendingRestarts < MaxPending
    /\ connectionTimeout' = "none"
    /\ isWhatsAppConnected' = FALSE
    /\ pendingRestarts' = pendingRestarts + 1
    /\ client' = "closed"
    /\ UNCHANGED <<faults, AUTO_CLEAR_SESSION, SESSION_CLEAR_THRESHOLD, reconnectAttempts, sessionClearAttempts,
                   lastSuccessfulConnection, sessionDir, restarts, connLog>>
    /\ UNCHANGED <<pipeVars, bootVars, fetchVars, dashVars, sessionVars>>

\* a 'ready' handler that leaves sessionClearAttempts as it is
EvReady_keepsClearAttempts ==
    /\ client = "authenticated"
    /\ connLog.readys < MaxReady
    /\ connectionTimeout' = "none"
    /\ reconnectAttempts' = 0
    /\ lastSuccessfulConnection' = now
    /\ isWhatsAppConnected' = TRUE
    /\ client' = "ready"
    /\ connLog' = [connLog EXCEPT !.readys = @ + 1, !.initsSinceReady = 0,
                                   !.refused = FALSE]
    /\ initTimers' = initTimers + 1
    /\ UNCHANGED <<bootConfig, is_initialized>>
    /\ UNCHANGED <<faults, AUTO_CLEAR_SESSION, SESSION_CLEAR_THRESHOLD, sessionClearAttempts, sessionDir, restarts,
                   pendingRestarts>>
    /\ UNCHANGED <<pipeVars, fetchVars, dashVars, sessionVars>>

\* client.on('ready'): the connection part, and the timer it sets for the
\* chat discovery and checkAndRunInitialization (its fallback on an error)
EvReady ==
    /\ client = "authenticated"
    /\ connLog.readys < MaxReady
    /\ connectionTimeout' = "none"
    /\ reconnectAttempts' = 0
    /\ sessionClearAttempts' = 0
    /\ lastSuccessfulConnection' = now
    /\ isWhatsAppConnected' = TRUE
    /\ client' = "ready"
    /\ connLog' = [connLog EXCEPT !.readys = @ + 1, !.initsSinceReady = 0,
                                   !.refused = FALSE]
    /\ initTimers' = initTimers + 1
    /\ UNCHANGED <<bootConfig, is_initialized>>
    /\ UNCHANGED <<faults, AUTO_CLEAR_SESSION, SESSION_CLEAR_THRESHOLD, sessionDir, restarts, pendingRestarts>>
    /\ UNCHANGED <<pipeVars, fetchVars, dashVars, sessionVars>>

\* client.on('disconnected')
EvDisconnected ==
    /\ client = "ready"
    /\ pendingRestarts < MaxPending
    /\ connectionTimeout' = "none"
    /\ isWhatsAppConnected' = FALSE
    /\ pendingRestarts' = pendingRestarts + 1
    /\ client' = "closed"
    /\ UNCHANGED <<faults, AUTO_CLEAR_SESSION, SESSION_CLEAR_THRESHOLD, reconnectAttempts, sessionClearAttempts,
                   lastSuccessfulConnection, sessionDir, restarts, connLog>>
    /\ UNCHANGED <<pipeVars, bootVars, fetchVars, dashVars, sessionVars>>

\* process.on('unhandledRejection' / 'uncaughtException') with a protocol error
ProtocolError ==
    /\ client # "idle"
    /\ pendingRestarts < MaxPending
    /\ pendingRestarts' = pendingRestarts + 1
    /\ UNCHANGED <<faults, AUTO_CLEAR_SESSION, SESSION_CLEAR_THRESHOLD, isWhatsAppConnected, connectionTimeout,
                   reconnectAttempts, sessionClearAttempts, lastSuccessfulConnection,
                   sessionDir, client, restarts, connLog>>
    /\ UNCHANGED <<pipeVars, bootVars, fetchVars, dashVars, sessionVars>>

\* the operator's /clear_session command: isSessionHealthy(), clearSessionSafely()
ClearSessionCommand ==
    LET cleared == clearSessionSafely(sessionDir, faults.backupFails) IN
    /\ client = "ready"
    /\ clearSessionRemoves
    /\ sessionDir' = cleared.dir
    /\ sessionClearAttempts' = IF cleared.resets THEN 0 ELSE sessionClearAttempts
    /\ reconnectAttempts' = IF cleared.resets THEN 0 ELSE reconnectAttempts
    /\ connLog' = [connLog EXCEPT !.refused = IF cleared.resets THEN FALSE ELSE @,
                      !.lastClear = [by |-> "command",
                                     atThreshold |-> sessionClearAttempts >= SESSION_CLEAR_THRESHOLD,
                                     healthy |-> isSessionHealthy,
                                     sinceSuccess |-> noRecentSuccess,
                                     fsOps |-> cleared.fsOps]]
    /\ UNCHANGED <<faults, AUTO_CLEAR_SESSION, SESSION_CLEAR_THRESHOLD, isWhatsAppConnected, connectionTimeout,
                   lastSuccessfulConnection, client, restarts, pendingRestarts>>
    /\ UNCHANGED <<pipeVars, bootVars, fetchVars, dashVars, sessionVars>>

\* the session directory passes the age of 30 days
SessionAges ==
    /\ sessionDir = "healthy"
    /\ ~connLog.aged
    /\ sessionDir' = "stale"
    /\ connLog' = [connLog EXCEPT !.aged = TRUE]
    /\ UNCHANGED <<faults, AUTO_CLEAR_SESSION, SESSION_CLEAR_THRESHOLD, isWhatsAppConnected, connectionTimeout,
                   reconnectAttempts, sessionClearAttempts, lastSuccessfulConnection,
                   client, restarts, pendingRestarts>>
    /\ UNCHANGED <<pipeVars, bootVars, fetchVars, dashVars, sessionVars>>

\* a day passes; the timers of the connection code run for minutes at most, so
\* none of them is pending across a day
TickDay ==
    /\ now + DAY_MS <= StartTime + MaxDays * DAY_MS
    /\ connectionTimeout = "none" /\ pendingRestarts = 0 /\ InFlight = 0
    /\ now' = now + DAY_MS
    /\ UNCHANGED <<MONITORED_CHATS, chat_configs, last_read_timestamp, chatLog,
                   processed_messages, tasks, handlers, scans, detects, rateLimiter,
                   requests, detectCalls>>
    /\ UNCHANGED <<connVars, bootVars, fetchVars, dashVars, sessionVars>>

(***************************************************************************)
(* Startup: the initialization callback of the 'ready' handler.            *)
(***************************************************************************)
\* refreshMonitoredChats(): the names of the monitored rows
monitoredNames(configs) ==
    {configs[c].chat_name : c \in {x \in DOMAIN configs : configs[x].is_monitored}}

\* the chat verification of checkAndRunInitialization: the operator keeps the
\* settings, or the review / the selection leaves the chats of keep monitored
verifiedConfigs(configs, keep) ==
    [c \in DOMAIN configs |-> [configs[c] EXCEPT !.is_monitored = c \in keep]]

\* the head of checkAndRunInitialization: without ALWAYS_VERIFY_CHATS an
\* initialized configuration makes it return at once
usesExistingConfig == ~ALWAYS_VERIFY_CHATS /\ is_initialized

\* a timer of the 'ready' handler fires: discoverChats, refreshMonitoredChats,
\* checkAndRunInitialization with the first-time setup or the chat
\* verification, then processStartupMessages when
\* AUTO_PROCESS_STARTUP_MESSAGES is on
RunInitialization(s, keep, answer) ==
    LET configs == verifiedConfigs(chat_configs, keep) IN
    /\ initTimers > 0
    /\ FreeSlot(s)
    /\ initTimers' = initTimers - 1
    /\ MONITORED_CHATS' = monitoredNames(chat_configs)
    /\ chat_configs' = IF usesExistingConfig THEN chat_configs ELSE configs
    /\ is_initialized' = TRUE
    /\ scans' = IF ~usesExistingConfig /\ AUTO_PROCESS_STARTUP_MESSAGES
                THEN [scans EXCEPT ![s] = startedScan(answer, configs)]
                ELSE scans
    /\ UNCHANGED bootConfig
    /\ UNCHANGED <<now, last_read_timestamp, chatLog, processed_messages, tasks,
                   handlers, detects, rateLimiter, requests, detectCalls>>
    /\ UNCHANGED <<connVars, fetchVars, dashVars, sessionVars>>

\* the dashboard server, a process of its own: POST /api/chats/:chatId/monitor
DashboardMonitor(chatId, monitored) ==
    /\ chat_configs[chatId].is_monitored # monitored
    /\ chat_configs' = [chat_configs EXCEPT ![chatId].is_monitored = monitored]
    /\ UNCHANGED <<now, MONITORED_CHATS, last_read_timestamp, chatLog, processed_messages,
                   tasks, handlers, scans, detects, rateLimiter, requests, detectCalls>>
    /\ UNCHANGED <<connVars, bootVars, fetchVars, dashVars, sessionVars>>

\* a saveChatConfig whose ON CONFLICT clause also takes the new is_monitored
saveChatConfig_overwritesFlag(configs, monitoredList, id, chatInfo) ==
    LET isCurrentlyMonitored == \E name \in monitoredList : includes(chatInfo.name, name) IN
    [c \in DOMAIN configs \cup {id} |->
        IF c = id
        THEN [chat_name |-> chatInfo.name, is_monitored |-> isCurrentlyMonitored,
              is_group |-> chatInfo.isGroup, participant_count |-> chatInfo.participantCount]
        ELSE configs[c]]

\* saveChatConfig(chatInfo): INSERT ... ON CONFLICT (chat_id) DO UPDATE SET
\* chat_name, is_group, participant_count
saveChatConfig(configs, monitoredList, id, chatInfo) ==
    LET isCurrentlyMonitored == \E name \in monitoredList : includes(chatInfo.name, name) IN
    [c \in DOMAIN configs \cup {id} |->
        IF c # id THEN configs[c]
        ELSE IF id \in DOMAIN configs
        THEN [configs[id] EXCEPT !.chat_name = chatInfo.name,
                                 !.is_group = chatInfo.isGroup,
                                 !.participant_count = chatInfo.participantCount]
        ELSE [chat_name |-> chatInfo.name, is_monitored |-> isCurrentlyMonitored,
              is_group |-> chatInfo.isGroup, participant_count |-> chatInfo.participantCount]]

\* discoverChats(): saveChatConfig for every chat that client.getChats() returned
RECURSIVE discoverChats(_, _, _, _)
discoverChats(configs, monitoredList, chats, ids) ==
    IF Len(ids) = 0 THEN configs
    ELSE discoverChats(saveChatConfig(configs, monitoredList, Head(ids), chats[Head(ids)]),
                       monitoredList, chats, Tail(ids))

\* a name the group can be renamed to
RenamedGroupName == <<"T","e","a","m">>

\* what client.getChats() can return for chat c: its name or a new one, a group
\* with its participants or an individual chat
ChatInfos(c) ==
    {info \in [name : {ChatName(c), RenamedGroupName}, isGroup : BOOLEAN,
               participantCount : {1, 3}] :
        ~info.isGroup => info.participantCount = 1}

GetChatsResults ==
    UNION {{chats \in [ids -> UNION {ChatInfos(c) : c \in ChatIds}] :
               \A c \in ids : chats[c] \in ChatInfos(c)} : ids \in SUBSET ChatIds}

\* case '/refresh' of handleCommand: discoverChats(), refreshMonitoredChats()
RefreshCommand(chats) ==
    /\ chat_configs' = discoverChats(chat_configs, MONITORED_CHATS, chats,
                                     OrderedChats(DOMAIN chats))
    /\ MONITORED_CHATS' = monitoredNames(chat_configs')
    /\ UNCHANGED <<now, last_read_timestamp, chatLog, processed_messages,
                   tasks, handlers, scans, detects, rateLimiter, requests, detectCalls>>
    /\ UNCHANGED <<connVars, bootVars, fetchVars, dashVars, sessionVars>>

\* '/monitor N' and '/unmonitor N' of handleCommand on a chat whose flag
\* differs: updateChatMonitoring(chat_id, newStatus), which ends with
\* refreshMonitoredChats()
MonitorCommand(chatId, newStatus) ==
    /\ chatId \in DOMAIN chat_configs
    /\ chat_configs[chatId].is_monitored # newStatus
    /\ chat_configs' = [chat_configs EXCEPT ![chatId].is_monitored = newStatus]
    /\ MONITORED_CHATS' = monitoredNames(chat_configs')
    /\ UNCHANGED <<now, last_read_timestamp, chatLog, processed_messages,
                   tasks, handlers, scans, detects, rateLimiter, requests, detectCalls>>
    /\ UNCHANGED <<connVars, bootVars, fetchVars, dashVars, sessionVars>>

\* POST /api/generate-token: generateDashboardToken() draws a token, stores
\* its expiry and drops the expired entries
GenerateToken(token) ==
    /\ issuedAt[token] = NullTime
    /\ dashboardTokens' =
          cleanupExpiredTokens(
              [k \in DOMAIN dashboardTokens \cup {token} |->
                  IF k = token THEN now + TOKEN_EXPIRY_MS ELSE dashboardTokens[k]], now)
    /\ issuedAt' = [issuedAt EXCEPT ![token] = now]
    /\ lastResponse' = [n |-> 1 - lastResponse.n, route |-> "POST /api/generate-token",
                        token |-> token, status |-> 200, queries |-> 0]
    /\ UNCHANGED <<pipeVars, connVars, bootVars, fetchVars, sessionVars>>

\* the pool.query calls of a route's handler
routeQueries(route) == IF route \in {"POST /api/refresh-chats", "GET /dashboard"} THEN 0 ELSE 1

\* a request of a guarded route: validateToken answers 401 or calls next(),
\* and then the handler runs its query (500 when the query throws); the
\* tasks table is empty here, so the queries on it leave it as it is
GuardedRequest(route, token, chatId, monitored, dbFails) ==
    LET valid == isValidToken(dashboardTokens, token, now)
        fails == dbFails /\ routeQueries(route) > 0
        done == valid /\ ~fails
    IN
    /\ dashboardTokens' = afterValidation(dashboardTokens, token, now)
    /\ lastResponse' = [n |-> 1 - lastResponse.n, route |-> route, token |-> token,
                        status |-> IF ~valid THEN 401 ELSE IF fails THEN 500 ELSE 200,
                        queries |-> IF valid THEN routeQueries(route) ELSE 0]
    /\ chat_configs' = IF done /\ route = "POST /api/chats/:chatId/monitor"
                       THEN [chat_configs EXCEPT ![chatId].is_monitored = monitored]
                       ELSE chat_configs
    /\ UNCHANGED <<now, MONITORED_CHATS, last_read_timestamp, chatLog, processed_messages,
                   tasks, handlers, scans, detects, rateLimiter, requests, detectCalls, issuedAt>>
    /\ UNCHANGED <<connVars, bootVars, fetchVars, sessionVars>>

\* the dashboard's clock advances
DashTick(d) ==
    /\ now + d \in DashClock
    /\ now' = now + d
    /\ UNCHANGED <<MONITORED_CHATS, chat_configs, last_read_timestamp, chatLog,
                   processed_messages, tasks, handlers, scans, detects, rateLimiter,
                   requests, detectCalls>>
    /\ UNCHANGED <<connVars, bootVars, fetchVars, dashVars, sessionVars>>

(***************************************************************************)
(* Specifications.                                                         *)
(***************************************************************************)
\* the environment unset, and the chat selection done in an earlier run
BootDefaults ==
    /\ ALWAYS_VERIFY_CHATS = TRUE
    /\ AUTO_PROCESS_STARTUP_MESSAGES = TRUE
    /\ is_initialized = TRUE

\* after startBot(): the connection timer is armed and client.initialize() called
ConnInit ==
    /\ AUTO_CLEAR_SESSION \in BOOLEAN
    /\ SESSION_CLEAR_THRESHOLD = DefaultClearThreshold
    /\ isWhatsAppConnected = FALSE
    /\ connectionTimeout = "connect"
    /\ reconnectAttempts = 0
    /\ sessionClearAttempts = 0
    /\ lastSuccessfulConnection = NullTime
    /\ sessionDir \in {"absent", "empty", "stale", "healthy"}
    /\ client = "starting"
    /\ restarts = [destroying |-> 0, waitInit |-> 0]
    /\ pendingRestarts = 0
    /\ connLog = ConnLogInit
    /\ initTimers = 0
    /\ faults = NoFaults

\* the connection after a first Ready, as the pipeline sees it
ConnReady ==
    /\ AUTO_CLEAR_SESSION = TRUE
    /\ SESSION_CLEAR_THRESHOLD = DefaultClearThreshold
    /\ isWhatsAppConnected = TRUE
    /\ connectionTimeout = "none"
    /\ reconnectAttempts = 0
    /\ sessionClearAttempts = 0
    /\ lastSuccessfulConnection = StartTime
    /\ sessionDir = "healthy"
    /\ client = "ready"
    /\ restarts = [destroying |-> 0, waitInit |-> 0]
    /\ pendingRestarts = 0
    /\ connLog = [ConnLogInit EXCEPT !.readys = 1]
    /\ faults = NoFaults

InitPipe == PipeInit /\ ConnReady /\ initTimers = 0 /\ BootDefaults

InitConn == PipeInit /\ ConnInit /\ BootDefaults

Init == PipeInit /\ ConnInit /\ BootDefaults

NextConn ==
    \/ RestartRequest
    \/ ConnectionTimeoutFires
    \/ RestartDestroyed
    \/ \E throws \in BOOLEAN : RestartInit(throws)
    \/ EvQr
    \/ EvAuthenticated
    \/ EvAuthFailure
    \/ EvReady
    \/ EvDisconnected
    \/ ProtocolError
    \/ ClearSessionCommand
    \/ SessionAges
    \/ TickDay

\* the process from its start with a saved session, up to the backfill scans;
\* the monitored chat holds one message, which has no indicator, so that the
\* scans run to their end without the classification service
QuietChatLog == << [id |-> "m2", timestamp |-> StartTime \div 1000] >>

InitBoot ==
    /\ PipeStart(QuietChatLog)
    /\ fetchCall = NoFetch
    /\ ConnInit
    /\ AUTO_CLEAR_SESSION
    /\ sessionDir = "healthy"
    /\ BootDefaults

\* the same start under every setting of the two startup switches, with and
\* without a chat selection made in an earlier run
InitStartup ==
    /\ PipeStart(QuietChatLog)
    /\ fetchCall = NoFetch
    /\ ConnInit
    /\ AUTO_CLEAR_SESSION
    /\ sessionDir = "healthy"
    /\ ALWAYS_VERIFY_CHATS \in BOOLEAN
    /\ AUTO_PROCESS_STARTUP_MESSAGES \in BOOLEAN
    /\ is_initialized \in BOOLEAN

NextBoot ==
    \/ EvAuthenticated
    \/ EvReady
    \/ EvDisconnected
    \/ RestartRequest
    \/ RestartDestroyed
    \/ \E throws \in BOOLEAN : RestartInit(throws)
    \/ \E s \in Scans, keep \in SUBSET ChatIds, answer \in 1..3 : RunInitialization(s, keep, answer)
    \/ \E s \in Scans : ScanChat(s)
    \/ \E s \in Scans : ScanMessage(s)
    \/ \E s \in Scans : ScanMark(s)
    \/ \E s \in Scans, shouldProcess \in BOOLEAN : ScanFinish(s, shouldProcess)

\* getMessagesFromChat over every history, checkpoint, lookback and page size
\* of the bounds, called at the start or days later
InitFetch ==
    /\ PipeStart(<<>>)
    /\ ConnReady
    /\ initTimers = 0
    /\ BootDefaults
    /\ fetchCall \in {[NoFetch EXCEPT !.pc = "called", !.hist = h, !.fromTimestamp = f,
                                      !.maxDays = d, !.fetchLimit = l] :
                          h \in Histories, f \in FromTimestamps, d \in MaxDaysValues,
                          l \in 1..MESSAGE_FETCH_LIMIT}

NextFetch == TickDay \/ GetMessagesFromChat

\* the operator's paths: the process just after its first Ready, with the
\* initialization still to run; the monitored chat holds a message without
\* indicators and the command chat holds the /mark_read command
OpsChatLog ==
    << [id |-> "m2", timestamp |-> StartTime \div 1000],
       [id |-> "m5", timestamp |-> StartTime \div 1000] >>

InitOps ==
    /\ PipeStart(OpsChatLog)
    /\ fetchCall = NoFetch
    /\ ConnReady
    /\ initTimers = 1
    /\ BootDefaults

\* an initBotSession() whose UPDATE also moves the checkpoint
initBotSession_movesCheckpoint(session, t) ==
    [login_timestamp |-> t, last_read_timestamp |-> t]

\* initBotSession(): INSERT (NOW(), NOW()) into an empty bot_sessions, otherwise
\* UPDATE ... SET login_timestamp = NOW()
initBotSession(session, t) ==
    IF session.login_timestamp = NullTime
    THEN [login_timestamp |-> t, last_read_timestamp |-> t]
    ELSE [session EXCEPT !.login_timestamp = t]

\* the in-memory connection state of a process that is not running
ConnDown ==
    /\ isWhatsAppConnected = FALSE
    /\ connectionTimeout = "none"
    /\ reconnectAttempts = 0
    /\ sessionClearAttempts = 0
    /\ lastSuccessfulConnection = NullTime
    /\ client = "idle"
    /\ restarts = [destroying |-> 0, waitInit |-> 0]
    /\ pendingRestarts = 0
    /\ connLog = ConnLogInit
    /\ initTimers = 0

\* startBot(): initBotSession(), startConnectionTimeout(), client.initialize()
StartBot ==
    LET session == initBotSession([login_timestamp |-> login_timestamp,
                                   last_read_timestamp |-> last_read_timestamp], now)
    IN
    /\ ~processUp
    /\ processUp' = TRUE
    /\ login_timestamp' = session.login_timestamp
    /\ last_read_timestamp' = session.last_read_timestamp
    /\ connectionTimeout' = "connect"
    /\ client' = "starting"
    /\ UNCHANGED <<now, MONITORED_CHATS, chat_configs, chatLog, processed_messages, tasks,
                   handlers, scans, detects, rateLimiter, requests, detectCalls>>
    /\ UNCHANGED <<faults, AUTO_CLEAR_SESSION, SESSION_CLEAR_THRESHOLD, isWhatsAppConnected, reconnectAttempts,
                   sessionClearAttempts, lastSuccessfulConnection, sessionDir, restarts,
                   pendingRestarts, connLog>>
    /\ UNCHANGED <<bootVars, fetchVars, dashVars, stoppedAt>>

\* the process ends (it is stopped or it crashes): the database and the
\* session directory stay, the state in memory is gone
StopProcess ==
    /\ processUp
    /\ processUp' = FALSE
    /\ stoppedAt' = now
    /\ MONITORED_CHATS' = {TestGroupName}
    /\ handlers' = [h \in Handlers |-> IdleHandler]
    /\ scans' = [s \in Scans |-> IdleScan]
    /\ detects' = [c \in Callers |-> NoDetect]
    /\ rateLimiter' = [lastCall |-> 0, minDelay |-> minDelay]
    /\ isWhatsAppConnected' = FALSE
    /\ connectionTimeout' = "none"
    /\ reconnectAttempts' = 0
    /\ sessionClearAttempts' = 0
    /\ lastSuccessfulConnection' = NullTime
    /\ client' = "idle"
    /\ restarts' = [destroying |-> 0, waitInit |-> 0]
    /\ pendingRestarts' = 0
    /\ connLog' = ConnLogInit
    /\ initTimers' = 0
    /\ UNCHANGED <<now, chat_configs, last_read_timestamp, chatLog, processed_messages, tasks,
                   requests, detectCalls>>
    /\ UNCHANGED <<faults, AUTO_CLEAR_SESSION, SESSION_CLEAR_THRESHOLD, sessionDir>>
    /\ UNCHANGED <<bootConfig, is_initialized, fetchVars, dashVars, login_timestamp>>

\* a process that is not running, over a database in which bot_sessions is
\* empty or holds the row of a run that ended at StartTime
InitSession ==
    /\ PipeStartWith(QuietChatLog, DiscoveredConfigs)
    /\ fetchCall = NoFetch
    /\ processUp = FALSE
    /\ \/ last_read_timestamp = NullTime /\ login_timestamp = NullTime /\ stoppedAt = NullTime
       \/ last_read_timestamp = StartTime /\ login_timestamp = StartTime /\ stoppedAt = StartTime
    /\ ConnDown
    /\ AUTO_CLEAR_SESSION = TRUE
    /\ SESSION_CLEAR_THRESHOLD = DefaultClearThreshold
    /\ sessionDir = "healthy"
    /\ faults = NoFaults
    /\ BootDefaults

\* the process is started and stopped; while it runs it connects and backfills
NextSession ==
    \/ StartBot
    \/ StopProcess
    \/ \E d \in TickSteps : Tick(d)
    \/ EvAuthenticated
    \/ EvReady
    \/ \E s \in Scans, keep \in SUBSET ChatIds, answer \in 1..3 : RunInitialization(s, keep, answer)
    \/ \E s \in Scans : ScanChat(s)
    \/ \E s \in Scans : ScanMessage(s)
    \/ \E s \in Scans : ScanMark(s)
    \/ \E s \in Scans, shouldProcess \in BOOLEAN : ScanFinish(s, shouldProcess)

\* a connected bot that has discovered the group and not yet the command chat
InitMonitor ==
    /\ PipeStartWith(QuietChatLog, [c \in {"c1"} |-> DiscoveredConfigs[c]])
    /\ SessionRunning
    /\ fetchCall = NoFetch
    /\ ConnReady
    /\ initTimers = 1
    /\ BootDefaults

\* the operations of the bot process on chat_configs
NextMonitor ==
    \/ \E s \in Scans, keep \in SUBSET ChatIds, answer \in 1..3 : RunInitialization(s, keep, answer)
    \/ \E chats \in GetChatsResults : RefreshCommand(chats)
    \/ \E c \in ChatIds, newStatus \in BOOLEAN : MonitorCommand(c, newStatus)

NextOps ==
    \/ \E s \in Scans, keep \in SUBSET ChatIds, answer \in 1..3 : RunInitialization(s, keep, answer)
    \/ \E c \in ChatIds, monitored \in BOOLEAN : DashboardMonitor(c, monitored)
    \/ \E d \in TickSteps : Tick(d)
    \/ \E h \in Handlers, m \in MsgIds : LiveMessage(h, m)
    \/ \E h \in Handlers : LiveCommand(h)
    \/ \E h \in Handlers : LiveIsProcessed(h)
    \/ \E h \in Handlers : LiveMark1(h)
    \/ \E s \in Scans : ScanChat(s)
    \/ \E s \in Scans : ScanChatFails(s)
    \/ \E s \in Scans : ScanMessage(s)
    \/ \E s \in Scans : ScanMark(s)
    \/ \E s \in Scans, shouldProcess \in BOOLEAN : ScanFinish(s, shouldProcess)

\* startBot() with auto-clear on, session material that fails the health check
\* and any configured threshold
InitThreshold ==
    /\ PipeInit
    /\ AUTO_CLEAR_SESSION = TRUE
    /\ SESSION_CLEAR_THRESHOLD \in 1..MaxThreshold
    /\ isWhatsAppConnected = FALSE
    /\ connectionTimeout = "connect"
    /\ reconnectAttempts = 0
    /\ sessionClearAttempts = 0
    /\ lastSuccessfulConnection = NullTime
    /\ sessionDir \in {"empty", "stale"}
    /\ client = "starting"
    /\ restarts = [destroying |-> 0, waitInit |-> 0]
    /\ pendingRestarts = 0
    /\ connLog = ConnLogInit
    /\ initTimers = 0
    /\ faults = NoFaults
    /\ BootDefaults

\* connection attempts that all fail: no 'authenticated' and no 'ready'
NextThreshold ==
    \/ RestartRequest
    \/ ConnectionTimeoutFires
    \/ RestartDestroyed
    \/ \E throws \in BOOLEAN : RestartInit(throws)
    \/ EvQr
    \/ EvAuthFailure
    \/ ProtocolError

\* startBot() with auto-clear on and a session directory on disk, under every
\* behaviour of the backup copy and of client.destroy()
InitRestart ==
    /\ PipeInit
    /\ AUTO_CLEAR_SESSION = TRUE
    /\ SESSION_CLEAR_THRESHOLD = DefaultClearThreshold
    /\ isWhatsAppConnected = FALSE
    /\ connectionTimeout = "connect"
    /\ reconnectAttempts = 0
    /\ sessionClearAttempts = 0
    /\ lastSuccessfulConnection = NullTime
    /\ sessionDir \in {"stale", "healthy"}
    /\ client = "starting"
    /\ restarts = [destroying |-> 0, waitInit |-> 0]
    /\ pendingRestarts = 0
    /\ connLog = ConnLogInit
    /\ initTimers = 0
    /\ faults \in Faults
    /\ BootDefaults

\* connection attempts that all fail, with up to MaxOverlap calls of
\* restartConnection under way at a time
NextRestart ==
    \/ RestartRequestUpTo(MaxOverlap)
    \/ ConnectionTimeoutFiresUpTo(MaxOverlap)
    \/ RestartDestroyed
    \/ \E throws \in BOOLEAN : RestartInit(throws)
    \/ EvQr
    \/ EvAuthFailure
    \/ ProtocolError

\* the event loop runs the continuation of every restartConnection() whose
\* await has returned, and every re-initialize timer that is due
RestartRuns ==
    /\ WF_vars(RestartDestroyed)
    /\ WF_vars(\E throws \in BOOLEAN : RestartInit(throws))

\* the backfill scan and the classifier calls it makes
NextScan ==
    \/ \E d \in TickSteps : Tick(d)
    \/ \E s \in Scans, answer \in 1..3 : ScanStart(s, answer)
    \/ \E s \in Scans : ScanChat(s)
    \/ \E s \in Scans : ScanMessage(s)
    \/ \E s \in Scans : ScanDetectResult(s)
    \/ \E s \in Scans : ScanMark(s)
    \/ \E s \in Scans, shouldProcess \in BOOLEAN : ScanFinish(s, shouldProcess)
    \/ \E c \in Callers : DetectWake(c)
    \/ \E c \in Callers, outcome \in ClassifierOutcomes : DetectReturn(c, outcome)

\* the event loop runs every continuation of the scan that is ready and every
\* timer that is due; whether the classifier service ever answers
\* (DetectReturn) is not in the program's hands
ScanRuns ==
    /\ WF_vars(\E d \in TickSteps : Tick(d))
    /\ \A s \in Scans :
          /\ WF_vars(ScanChat(s))
          /\ WF_vars(ScanMessage(s))
          /\ WF_vars(ScanDetectResult(s))
          /\ WF_vars(ScanMark(s))
          /\ WF_vars(\E shouldProcess \in BOOLEAN : ScanFinish(s, shouldProcess))
          /\ WF_vars(DetectWake(s))

\* the dashboard server next to a connected bot
InitDash ==
    /\ PipeStart(<<>>)
    /\ fetchCall = NoFetch
    /\ ConnReady
    /\ initTimers = 0
    /\ BootDefaults

NextDash ==
    \/ \E token \in Tokens : GenerateToken(token)
    \/ \E route \in GuardedRoutes \ {"POST /api/chats/:chatId/monitor"},
          token \in RequestTokens, dbFails \in BOOLEAN :
          GuardedRequest(route, token, "c1", TRUE, dbFails)
    \/ \E token \in RequestTokens, monitored \in BOOLEAN, dbFails \in BOOLEAN :
          GuardedRequest("POST /api/chats/:chatId/monitor", token, "c1", monitored, dbFails)
    \/ \E d \in {1, TOKEN_EXPIRY_MS} : DashTick(d)

Next == NextPipe \/ NextConn \/ NextBoot \/ NextFetch \/ NextOps \/ NextDash

SpecPipe == InitPipe /\ [][NextPipe]_vars

SpecConn == InitConn /\ [][NextConn]_vars

SpecBoot == InitBoot /\ [][NextBoot]_vars

SpecFetch == InitFetch /\ [][NextFetch]_vars

SpecOps == InitOps /\ [][NextOps]_vars

SpecDash == InitDash /\ [][NextDash]_vars

SpecStartup == InitStartup /\ [][NextBoot]_vars

SpecRestart == InitRestart /\ [][NextRestart]_vars /\ RestartRuns

SpecMonitor == InitMonitor /\ [][NextMonitor]_vars

SpecSession == InitSession /\ [][NextSession]_vars

SpecThreshold == InitThreshold /\ [][NextThreshold]_vars

SpecScan == InitPipe /\ [][NextScan]_vars /\ ScanRuns

Spec == Init /\ [][Next]_vars

(***************************************************************************)
(* Properties of the ingestion pipeline (specification SpecPipe).          *)
(***************************************************************************)
\* C1: in the live handler and in the backfill scanner, detectTask is invoked
\* for a message only if hasTaskIndicators(body) returned true for it: a
\* message whose text has no indicator never gets a classifier call.
C1_PreFilterIsAGate ==
    \A m \in MsgIds : detectCalls[m] > 0 => HasIndicators[m]

\* a live handler and a backfill scan have both passed a message without
\* indicators, and the classifier was called for another message
C1_GateExercised ==
    /\ \E h \in Handlers : handlers[h].pc = "done" /\ handlers[h].end = "no_indicators"
    /\ \E s \in Scans : \E m \in scans[s].seen :
          ~HasIndicators[m] /\ detectCalls[m] = 0
    /\ \E m \in MsgIds : detectCalls[m] > 0

\* message m has been delivered and its processing has ended, by a live
\* handler that took it into the pipeline or by a backfill scan
Delivered(m) ==
    \/ \E h \in Handlers : /\ handlers[h].pc = "done"
                           /\ handlers[h].msg = m
                           /\ handlers[h].end \notin {"skipped", "command"}
    \/ \E s \in Scans : m \in scans[s].seen

\* C2: however live handlers and backfill scans deliver a message of a
\* monitored chat, once its processing has ended the store holds exactly one
\* ProcessedMessageRecord and at most one Task row for its fingerprint.
C2_ExactlyOneRecord ==
    \A m \in MsgIds : Delivered(m) =>
        /\ RowCount(processed_messages, m) = 1
        /\ RowCount(tasks, m) <= 1

\* the live handlers that have called detectTask for message m
LiveCallers(m) ==
    {h \in Handlers : /\ handlers[h].pc # "idle"
                      /\ detects[h].pc # "none"
                      /\ detects[h].msg = m}

\* C3: for every fingerprint the classifier is called at most once, also when
\* two live 'message' handlers for the same fingerprint interleave at their
\* datastore suspension points.
C3_LiveClassifiesOnce ==
    \A m \in MsgIds : Cardinality(LiveCallers(m)) <= 1

\* a ProcessedMessageRecord with was_analyzed = true exists for message m
Analyzed(m) == \E r \in RowsFor(processed_messages, m) : r.was_analyzed

\* C4: once a ProcessedMessageRecord with was_analyzed = true exists for a
\* fingerprint, no later classifier call is made for that fingerprint.
C4_NoReclassification ==
    [][\A m \in MsgIds : Analyzed(m) => detectCalls'[m] = detectCalls[m]]_vars

\* C8: any two requests sent to the classification service are at least
\* rateLimiter.minDelay apart, whatever the interleaving of the callers.
C8_RequestsSpaced ==
    [][(requests'.count > requests.count /\ requests.count > 0)
          => requests'.last - requests.last >= rateLimiter.minDelay]_vars

\* C9: for a live message with indicators, when the classifier call throws,
\* returns a response that does not parse or lacks is_task, or loses the race
\* against the 15 s timer, the handler ends in that step without a Task row
\* being created.
C9_FailedClassificationIsNoTask ==
    [][\A h \in Handlers :
          (/\ handlers[h].pc = "detect"
           /\ handlers'[h].pc # "detect"
           /\ (detects[h].pc # "returned" \/ detects[h].outcome \in FailedOutcomes))
          => (/\ handlers'[h].pc = "done"
              /\ handlers'[h].end \in {"not_task", "detect_failed"}
              /\ tasks' = tasks)]_vars

\* one live handler has ended on a failed classification and another on the
\* timeout, and there is no Task row
C9_FailureHandled ==
    /\ \E h \in Handlers : /\ handlers[h].pc = "done"
                           /\ handlers[h].end = "not_task"
                           /\ detects[h].pc = "settled"
                           /\ detects[h].outcome = "failed"
    /\ \E h \in Handlers : /\ handlers[h].pc = "done"
                           /\ handlers[h].end = "detect_failed"
                           /\ detects[h].pc # "settled"
    /\ tasks = EmptyBag

\* C10: after the live handler has processed a message that has indicators,
\* the ProcessedMessageRecord of its fingerprint has had_indicators = true
\* and was_analyzed = true, whatever the classification outcome.
C10_LiveRecordIsAnalyzed ==
    \A h \in Handlers :
        (handlers[h].pc = "done" /\ handlers[h].end \in {"task_saved", "not_task", "detect_failed"})
        => \E r \in RowsFor(processed_messages, handlers[h].msg) :
              r.had_task_indicators /\ r.was_analyzed

\* C11: a first-seen live message of at least 3 characters on a monitored,
\* non-command chat whose text has no indicator gets no classifier call,
\* exactly one ProcessedMessageRecord with had_indicators = false and
\* was_analyzed = false, and no Task row.
C11_NoIndicatorIsRecordedOnly ==
    \A h \in Handlers :
        (/\ handlers[h].pc = "done"
         /\ handlers[h].end \notin {"skipped", "command", "duplicate"}
         /\ ~HasIndicators[handlers[h].msg])
        => (/\ handlers[h].end = "no_indicators"
            /\ detectCalls[handlers[h].msg] = 0
            /\ RowCount(processed_messages, handlers[h].msg) = 1
            /\ \A r \in RowsFor(processed_messages, handlers[h].msg) :
                   ~r.had_task_indicators /\ ~r.was_analyzed
            /\ RowCount(tasks, handlers[h].msg) = 0)

\* two live handlers have both taken the message "Thanks!" past the dedup query
C11_ThanksHandledTwice ==
    \A h \in Handlers :
        /\ handlers[h].pc = "done"
        /\ handlers[h].end = "no_indicators"
        /\ MsgBody[handlers[h].msg] = <<"T","h","a","n","k","s","!">>

\* the runs of processStartupMessages that went on to scan the monitored chats
ScansRun == {s \in Scans : scans[s].pc # "idle" /\ Len(scans[s].allChats) > 0}

\* C12: within one process the backfill scan runs at most once, however many
\* times the transport signals Ready.
C12_BackfillAtMostOnce == Cardinality(ScansRun) <= 1

\* a backfill scan is between its start and its end
ScanInProgress == \E s \in Scans : scans[s].pc \notin {"idle", "done"}

\* C13: while the backfill scan is in progress, no step of the live message
\* handler marks a message processed or calls the classifier.
C13_LiveWaitsForBackfill ==
    [][(ScanInProgress /\ handlers' # handlers)
          => (processed_messages' = processed_messages /\ detectCalls' = detectCalls)]_vars

\* the cutoff as the filter compares it: null compares as 0
EffectiveCutoff == IF fetchCall.cutoff = NullTime THEN 0 ELSE fetchCall.cutoff

\* C14: for every chat history in timestamp order, every page size and every
\* cutoff, getMessagesFromChat returns exactly the messages of the history
\* whose timestamp is at or after the cutoff, in their order.
C14_ReturnsExactlyTheQualifying ==
    fetchCall.pc = "returned"
    => fetchCall.out =
          SelectSeq(fetchCall.hist, LAMBDA e : e.timestamp * 1000 >= EffectiveCutoff)

\* a history with more qualifying messages than two pages was returned whole,
\* and one message of another history was left out
C14_GrewPastTheFirstPage ==
    /\ fetchCall.pc = "returned"
    /\ Len(fetchCall.out) > 2 * fetchCall.fetchLimit
    /\ Len(fetchCall.out) < Len(fetchCall.hist)

\* C15: a message whose timestamp equals the cutoff is in the result of
\* getMessagesFromChat, a message one millisecond older than the cutoff is not.
C15_CutoffIsInclusive ==
    fetchCall.pc = "returned"
    => \A i \in 1..Len(fetchCall.hist) :
          LET e == fetchCall.hist[i]
              returned == \E j \in 1..Len(fetchCall.out) : fetchCall.out[j] = e
          IN /\ e.timestamp * 1000 = EffectiveCutoff => returned
             /\ e.timestamp * 1000 = EffectiveCutoff - 1 => ~returned

\* the lookback limit replaced the checkpoint as the cutoff, and a message
\* exactly at it was returned
C15_MessageAtTheLookbackLimit ==
    /\ fetchCall.pc = "returned"
    /\ fetchCall.cutoff # fetchCall.fromTimestamp
    /\ \E j \in 1..Len(fetchCall.out) : fetchCall.out[j].timestamp * 1000 = fetchCall.cutoff

\* C30: for every checkpoint, the absent one (null) included,
\* getMessagesFromChat with a lookback limit returns no message older than
\* maxDays before now.
C30_NothingOlderThanMaxDays ==
    [][(fetchCall.pc = "called" /\ fetchCall'.pc = "returned" /\ fetchCall.maxDays # 0)
          => \A j \in 1..Len(fetchCall'.out) :
                fetchCall'.out[j].timestamp * 1000 >= now - fetchCall.maxDays * DAY_MS]_vars

\* the fetch with this limit ends the loop: it returned fewer messages than
\* requested or one of them is older than the cutoff
LastFetch(limit) ==
    LET messages == fetchMessages(fetchCall.hist, limit) IN
    \/ Len(messages) < limit
    \/ \E i \in 1..Len(messages) : messages[i].timestamp * 1000 < EffectiveCutoff

\* C31: for a history of N messages and page size P, the window-growth loop
\* makes at most ceil(N / P) + 1 fetches, with limits P, 2P, 3P, ..., and stops
\* at the first fetch that returns fewer messages than requested or holds a
\* message older than the cutoff.
C31_GrowthLoopIsBounded ==
    fetchCall.pc = "returned"
    => LET N == Len(fetchCall.hist)
           P == fetchCall.fetchLimit
           fetches == Len(fetchCall.limits)
       IN /\ fetches >= 1
          /\ fetches <= ((N + P - 1) \div P) + 1
          /\ \A k \in 1..fetches : fetchCall.limits[k] = k * P
          /\ \A k \in 1..fetches : LastFetch(fetchCall.limits[k]) <=> k = fetches
          /\ fetchCall.out =
                filterMessages(fetchMessages(fetchCall.hist, fetchCall.limits[fetches]),
                               fetchCall.cutoff)

\* a history of two full pages inside the window took three fetches
C31_ThreeFetchesForTwoPages ==
    /\ fetchCall.pc = "returned"
    /\ fetchCall.fetchLimit = 2
    /\ Len(fetchCall.hist) = 4
    /\ fetchCall.limits = <<2, 4, 6>>
    /\ Len(fetchCall.out) = 4

\* the step in which scan s, one that processes messages, returns
ProcessingScanFinishes(s) ==
    /\ scans[s].pc = "chats"
    /\ scans'[s].pc = "done"
    /\ scans[s].choice = 1 \/ scans[s].pass = 2

\* C16: when a processing backfill scan finishes, the checkpoint becomes the
\* current time if the scan found at least one message and stays as it was if
\* it found none.
C16_CheckpointIsNowOrUnchanged ==
    [][\A s \in Scans :
          ProcessingScanFinishes(s)
          => last_read_timestamp' =
                IF scans[s].totalMessages > 0 THEN now ELSE last_read_timestamp]_vars

\* one processing scan found messages and moved the checkpoint to its finish
\* time, later than every message; the next one found none and left it there
C16_SecondScanFoundNone ==
    /\ scans[1].pc = "done" /\ scans[1].choice = 1 /\ scans[1].totalMessages > 0
    /\ scans[2].pc = "done" /\ scans[2].choice = 1 /\ scans[2].totalMessages = 0
    /\ scans[2].lastRead = last_read_timestamp
    /\ \A i \in 1..Len(chatLog) : chatLog[i].timestamp * 1000 < last_read_timestamp

\* the step in which scan s returns after its chat loop went through every
\* monitored chat without a chat that could not be fetched
CompleteScanFinishes(s) ==
    /\ scans[s].pc = "chats"
    /\ Len(scans[s].chats) = 0
    /\ scans'[s].pc = "done"
    /\ scans[s].failedChats = 0

\* C17: the last-read timestamp changes only in the last step of a backfill
\* scan that has scanned every monitored chat; no other operation changes it,
\* and a scan in which a chat could not be scanned does not.
C17_CheckpointOnlyAfterCompleteScan ==
    [][last_read_timestamp' # last_read_timestamp
          => \E s \in Scans : CompleteScanFinishes(s)]_vars

\* scan s takes a step as a second processing run: scan r, a processing run
\* that read the same checkpoint, has returned and moved the checkpoint on
SecondRunSteps(s, r) ==
    /\ r # s
    /\ scans[r].pc = "done" /\ scans[r].choice = 1
    /\ scans[s].pc \notin {"idle", "done"} /\ scans[s].choice = 1
    /\ scans[s].lastRead = scans[r].lastRead
    /\ last_read_timestamp # scans[s].lastRead
    /\ scans'[s] # scans[s]

\* C18: a second run of the backfill scan over the same histories with the
\* same checkpoint detects no task and leaves the Task table and the
\* ProcessedMessageRecord table as they are.
C18_SecondRunChangesNothing ==
    [][\A s, r \in Scans :
          SecondRunSteps(s, r)
          => /\ tasks' = tasks
             /\ processed_messages' = processed_messages
             /\ scans'[s].totalTasks = 0]_vars

\* the step in which scan s leaves a message that the classifier flagged as a task
FlaggedMessageDone(s) ==
    /\ scans'[s].seen # scans[s].seen
    /\ \/ scans[s].pc = "markTask"
       \/ /\ scans[s].pc = "detect"
          /\ detects[s].pc = "returned"
          /\ Truthy(detects[s].result.is_task)

\* C19: when the backfill is done with a message that has indicators and that
\* the classifier flagged as a task, there is a Task row and a
\* ProcessedMessageRecord for the message and the scan has counted it.
C19_BackfilledTaskIsStored ==
    [][\A s \in Scans :
          FlaggedMessageDone(s)
          => LET m == Head(scans[s].msgs) IN
             /\ RowCount(tasks', m) >= 1
             /\ RowCount(processed_messages', m) >= 1
             /\ scans'[s].totalTasks = scans[s].totalTasks + 1]_vars

\* the processed_messages rows of a message the 'message' handler has gone
\* through alone: its two markMessageProcessed calls on a table without the message
liveRecord(m) ==
    LET first == markMessageProcessed(EmptyBag, m, MsgChat[m], HasIndicators[m], FALSE) IN
    BagToSet(IF HasIndicators[m]
             THEN markMessageProcessed(first, m, MsgChat[m], TRUE, TRUE)
             ELSE first)

\* scan s is at message m or has been through it
ScanTouches(s, m) ==
    \/ m \in scans[s].seen
    \/ scans[s].pc \in {"msgs", "detect", "mark", "markTask"} /\ Head(scans[s].msgs) = m

\* handler h, the only activity that has touched its message, returns in this
\* step with the classifier's answer (a task or not) acted on
LiveAloneDone(h, isTask) ==
    /\ handlers[h].pc \notin {"idle", "done"} /\ handlers'[h].pc = "done"
    /\ handlers'[h].end \in (IF isTask THEN {"task_saved"} ELSE {"no_indicators", "not_task"})
    /\ \A g \in Handlers \ {h} : handlers[g].msg # handlers[h].msg
    /\ \A s \in Scans : ~ScanTouches(s, handlers[h].msg)

\* scan s, the only activity that has touched its current message, leaves the
\* message in this step with the classifier's answer (a task or not) acted on
BackfillAloneDone(s, isTask) ==
    /\ scans'[s].seen # scans[s].seen
    /\ isTask <=> \/ scans[s].pc = "markTask"
                  \/ scans[s].pc = "detect" /\ Truthy(detects[s].result.is_task)
    /\ \A h \in Handlers : handlers[h].msg # Head(scans[s].msgs)
    /\ \A r \in Scans \ {s} : ~ScanTouches(r, Head(scans[s].msgs))

\* what either path has to leave for message m
SameAsLive(m, isTask) ==
    /\ RowsFor(processed_messages', m) = liveRecord(m)
    /\ RowCount(tasks', m) = (IF isTask THEN 1 ELSE 0)

\* C32: for a message of a monitored chat and a classifier answer, the
\* backfill leaves the processed_messages flags and the Task row that the live
\* handler leaves, and both paths skip a message that is already recorded.
C32_BackfillEqualsLive ==
    [][/\ \A isTask \in BOOLEAN :
            /\ \A h \in Handlers :
                  LiveAloneDone(h, isTask) => SameAsLive(handlers[h].msg, isTask)
            /\ \A s \in Scans :
                  BackfillAloneDone(s, isTask) => SameAsLive(Head(scans[s].msgs), isTask)
       /\ \A h \in Handlers :
            (handlers[h].pc = "isProcessed" /\ isMessageProcessed(handlers[h].msg)
                                           /\ handlers'[h] # handlers[h])
               => handlers'[h].pc = "done"
       /\ \A s \in Scans :
            (scans[s].pc = "msgs" /\ isMessageProcessed(Head(scans[s].msgs))
                                 /\ scans'[s] # scans[s])
               => /\ detectCalls' = detectCalls
                  /\ scans'[s].seen # scans[s].seen]_vars

\* the chats of the messages that get a mark or a classifier call in this step
ChatsProcessedInStep ==
    {MsgChat[m] : m \in {x \in MsgIds :
                            \/ RowCount(processed_messages', x) # RowCount(processed_messages, x)
                            \/ detectCalls'[x] # detectCalls[x]}}

\* C20: a message is marked processed or classified only while the monitored
\* flag of its chat is true in chat_configs.
C20_OnlyMonitoredChatsProcessed ==
    [][\A c \in ChatsProcessedInStep : chat_configs[c].is_monitored]_vars

\* the messages the 'message' handler keeps away from the classifier: any
\* message of the command chat and any '/'-message
CommandTraffic == {m \in MsgIds : isCommandChat(m) \/ isCommand(trim(MsgBody[m]))}

\* C27: handleCommand runs only for a '/'-message of the command chat, and a
\* '/'-message of another chat or any message of the command chat (monitored
\* or not) is never classified and gets no processed_messages row and no task.
C27_CommandTrafficIsNeverIngested ==
    /\ \A h \in Handlers :
          handlers[h].pc = "command"
              => isCommandChat(handlers[h].msg) /\ isCommand(trim(MsgBody[handlers[h].msg]))
    /\ \A m \in CommandTraffic :
          /\ detectCalls[m] = 0
          /\ RowCount(processed_messages, m) = 0
          /\ RowCount(tasks, m) = 0

(***************************************************************************)
(* Properties of the connection lifecycle (specification SpecConn).        *)
(***************************************************************************)
\* C5 as stated: with no Ready in between, reconnectAttempts never exceeds
\* MAX_RECONNECT_ATTEMPTS and restartConnection makes at most that many
\* client.initialize calls.
C5_AtMostThreeInitializes ==
    /\ reconnectAttempts <= MAX_RECONNECT_ATTEMPTS
    /\ connLog.initsSinceReady <= MAX_RECONNECT_ATTEMPTS

\* C5: reconnectAttempts never exceeds MAX_RECONNECT_ATTEMPTS; a restart is
\* begun only while the counter is below the ceiling; a request that arrives
\* at the ceiling returns without touching the client. (The counter is also
\* set back to 0 when restartConnection clears the session, so the number of
\* initialize calls without a Ready is not bounded by the ceiling.)
C5_CeilingOnTheCounter ==
    [][/\ reconnectAttempts' <= MAX_RECONNECT_ATTEMPTS
       /\ (restarts'.destroying > restarts.destroying
              => reconnectAttempts < MAX_RECONNECT_ATTEMPTS)
       /\ ((connLog'.refused /\ ~connLog.refused)
              => /\ reconnectAttempts = MAX_RECONNECT_ATTEMPTS
                 /\ reconnectAttempts' = reconnectAttempts
                 /\ restarts' = restarts
                 /\ client' = client
                 /\ connLog'.initsSinceReady = connLog.initsSinceReady)]_vars

\* the counter stands at the ceiling after more than MAX_RECONNECT_ATTEMPTS
\* initialize calls without a Ready, and a further request has been refused
C5_RefusedAtCeiling ==
    /\ reconnectAttempts = MAX_RECONNECT_ATTEMPTS
    /\ connLog.refused
    /\ connLog.readys = 0
    /\ connLog.initsSinceReady > MAX_RECONNECT_ATTEMPTS
    /\ InFlight = 0

C7_NoAutoClearWhenDisabled ==
    ~AUTO_CLEAR_SESSION => connLog.lastClear.by # "restart"

\* auto-clear is off and a restart has kept an unhealthy session although
\* sessionClearAttempts had reached the threshold
C7_KeptAtThreshold ==
    /\ ~AUTO_CLEAR_SESSION
    /\ sessionClearAttempts >= SESSION_CLEAR_THRESHOLD
    /\ sessionDir \in {"empty", "stale"}
    /\ restarts.waitInit > 0

\* C21: every Ready transition sets reconnectAttempts and sessionClearAttempts
\* to 0, sets lastSuccessfulConnection to the current time, cancels the
\* connection timeout and marks the connection as connected.
C21_ReadyResetsTheCounters ==
    [][(client # "ready" /\ client' = "ready")
          => /\ reconnectAttempts' = 0
             /\ sessionClearAttempts' = 0
             /\ lastSuccessfulConnection' = now
             /\ connectionTimeout' = "none"
             /\ isWhatsAppConnected']_vars

\* the second Ready of a process, a day or more after its start and after a
\* restart that had counted up both counters
C21_ReadyAfterARestart ==
    /\ client = "ready"
    /\ connLog.readys = 2
    /\ reconnectAttempts = 0 /\ sessionClearAttempts = 0
    /\ lastSuccessfulConnection = now /\ now > StartTime
    /\ connectionTimeout = "none" /\ isWhatsAppConnected

\* the step of restartConnection that sets the timer for the re-initialize
SetsRetryTimer == restarts'.waitInit > restarts.waitInit

\* C22: the delay before each re-initialize, min(SESSION_RETRY_DELAY *
\* sessionClearAttempts, 15000), is never shorter than the delay of the attempt
\* before it and never longer than 15000 ms.
C22_RetryDelayNeverDecreases ==
    [][SetsRetryTimer
          => /\ retryDelay(sessionClearAttempts') >= retryDelay(sessionClearAttempts)
             /\ retryDelay(sessionClearAttempts') <= MaxRetryDelay]_vars

\* the connection is not Ready and restartConnection would admit a restart
DownWithAttemptsLeft == client # "ready" /\ reconnectAttempts < MAX_RECONNECT_ATTEMPTS

\* a connection timer or a restartConnection timer is set, or a restart is under way
ReconnectPending == connectionTimeout # "none" \/ pendingRestarts > 0 \/ InFlight > 0

\* C23: whenever the connection is not Ready and fewer than
\* MAX_RECONNECT_ATTEMPTS reconnects have been used, a connection timeout or a
\* scheduled restart is pending (or a restart is under way and will set one).
C23_DownConnectionHasATimer == DownWithAttemptsLeft => ReconnectPending

(***************************************************************************)
(* Termination of the backfill scan (specification SpecScan).              *)
(***************************************************************************)
\* scan s awaits detectTask, whose request to the classifier is out
AwaitsClassifier(s) == scans[s].pc = "detect" /\ detects[s].pc = "inflight"

\* C24: the backfill scan always terminates: a classifier call the scan is
\* waiting for is abandoned after a timeout if it does not return, so the scan
\* never waits for it forever.
C24_ClassifierCallIsAbandoned == \A s \in Scans : AwaitsClassifier(s) ~> ~AwaitsClassifier(s)

(***************************************************************************)
(* The configured clear threshold (specification SpecThreshold).           *)
(***************************************************************************)
\* the failed connection attempts since the counters were last reset: those
\* restartConnection has counted, and the one it refused to handle
FailedAttempts == sessionClearAttempts + (IF connLog.refused THEN 1 ELSE 0)

\* C25: with auto-clear on and session material that fails the health check,
\* for every configured threshold T >= 1 the material is cleared once T
\* consecutive connection attempts have failed: while it is still there and no
\* restart is under way, fewer than T attempts have failed.
C25_ClearedAtTheThreshold ==
    (AUTO_CLEAR_SESSION /\ sessionDir \in {"empty", "stale"} /\ InFlight = 0)
        => FailedAttempts < SESSION_CLEAR_THRESHOLD

(***************************************************************************)
(* The startup switches (specification SpecStartup).                       *)
(***************************************************************************)
\* checkAndRunInitialization runs in this step
InitializationRuns == initTimers' < initTimers

\* processStartupMessages is entered in this step
ScanIsEntered == \E s \in Scans : scans[s].pc = "idle" /\ scans'[s].pc # "idle"

\* C26: with AUTO_PROCESS_STARTUP_MESSAGES on, every startup initialization
\* that follows Ready reaches processStartupMessages, whatever
\* ALWAYS_VERIFY_CHATS is and whether or not a chat configuration exists; with
\* it off, the scan does not run.
C26_SwitchDecidesTheScan ==
    [][InitializationRuns
          => IF AUTO_PROCESS_STARTUP_MESSAGES THEN ScanIsEntered ELSE scans' = scans]_vars

(***************************************************************************)
(* The dashboard's temporal tokens (specification SpecDash).               *)
(***************************************************************************)
\* token was generated and is at most TOKEN_EXPIRY_MS old
Acceptable(token) ==
    /\ token \in Tokens
    /\ issuedAt[token] # NullTime
    /\ now <= issuedAt[token] + TOKEN_EXPIRY_MS

\* the dashboard answers a request of a guarded route in this step
RequestAnswered == lastResponse'.n # lastResponse.n /\ lastResponse'.route \in GuardedRoutes

\* C28: every /api route other than POST /api/generate-token answers 401 and
\* makes no database query when the request carries no token, an unknown
\* token or an expired token.
C28_ApiNeedsAValidToken ==
    [][(RequestAnswered /\ lastResponse'.route \in ApiRoutes
                        /\ ~Acceptable(lastResponse'.token))
          => /\ lastResponse'.status = 401
             /\ lastResponse'.queries = 0
             /\ chat_configs' = chat_configs
             /\ tasks' = tasks]_vars

\* an expired token has just been refused on the monitor route
C28_ExpiredTokenRefused ==
    /\ lastResponse.route = "POST /api/chats/:chatId/monitor"
    /\ lastResponse.token \in Tokens
    /\ issuedAt[lastResponse.token] # NullTime
    /\ now > issuedAt[lastResponse.token] + TOKEN_EXPIRY_MS
    /\ lastResponse.status = 401
    /\ lastResponse.queries = 0

\* C29: a token is accepted exactly from its issue until 5 minutes later; a
\* validation after its expiry rejects it and leaves it out of the token map,
\* and so does every later one.
C29_TokenLivesFiveMinutes ==
    [][RequestAnswered
          => /\ (lastResponse'.status # 401) <=> Acceptable(lastResponse'.token)
             /\ ~Acceptable(lastResponse'.token)
                   => lastResponse'.token \notin DOMAIN dashboardTokens']_vars

\* a token accepted at the last instant of its life and refused 1 ms later,
\* when the validation took it out of the map
C29_RefusedOneMillisecondLate ==
    /\ issuedAt["t1"] = StartTime
    /\ now = StartTime + TOKEN_EXPIRY_MS + 1
    /\ lastResponse.token = "t1"
    /\ lastResponse.status = 401
    /\ "t1" \notin DOMAIN dashboardTokens
    /\ "t2" \in DOMAIN dashboardTokens

\* the 15 s timer of handler h has fired and its classifier call is still
\* under way or has returned since
TimedOut(h) ==
    /\ handlers[h].pc = "done" /\ handlers[h].end = "detect_failed"
    /\ detects[h].pc \in {"sleep", "inflight", "returned"}

\* C33: a live classifier call that completes after its 15 s timeout has fired
\* creates no Task row and changes no stored record, whatever its result:
\* the handler has returned and stays as it is.
C33_LateResultIsDropped ==
    [][\A h \in Handlers :
          TimedOut(h)
             => /\ handlers'[h] = handlers[h]
                /\ detects'[h] # detects[h]
                     => /\ tasks' = tasks
                        /\ processed_messages' = processed_messages
                        /\ last_read_timestamp' = last_read_timestamp]_vars

\* a classifier call has answered "task" after the timer of its handler fired,
\* and the message has no Task row
C33_LateTaskAnswer ==
    \E h \in Handlers :
       /\ TimedOut(h)
       /\ detects[h].pc = "returned"
       /\ Truthy(detects[h].result.is_task)
       /\ RowCount(tasks, handlers[h].msg) = 0

\* C34: every clearSessionSafely() that removes the session directory has
\* attempted the backup copy before the removal, and a backup copy that fails
\* prevents neither the removal nor the reset of the two counters.
C34_BackupBeforeRemoval ==
    [][/\ (sessionDir # "absent" /\ sessionDir' = "absent")
            => /\ connLog'.lastClear.fsOps \in {<<"cpSync", "rmSync">>, <<"cpSync_throws", "rmSync">>}
               /\ sessionClearAttempts' = 0 /\ reconnectAttempts' = 0
       /\ (connLog'.lastClear # connLog.lastClear
              /\ Head(connLog'.lastClear.fsOps) = "cpSync_throws")
            => /\ connLog'.lastClear.fsOps = <<"cpSync_throws", "rmSync">>
               /\ sessionDir' = "absent"
               /\ sessionClearAttempts' = 0 /\ reconnectAttempts' = 0]_vars

\* a restart has removed the session directory after the backup copy failed
C34_RemovedAfterFailedBackup ==
    /\ connLog.lastClear.by = "restart"
    /\ connLog.lastClear.fsOps = <<"cpSync_throws", "rmSync">>
    /\ sessionDir = "absent"
    /\ sessionClearAttempts = 0 /\ reconnectAttempts = 0

\* C35: a reconnect attempt that has passed the ceiling check always reaches
\* its re-initialize step, whether client.destroy() resolves, throws or never
\* completes, and that step re-arms the connection timeout and calls
\* client.initialize().
C35_RestartReachesInitialize ==
    /\ (InFlight > 0) ~> (InFlight = 0)
    /\ [][restarts'.waitInit < restarts.waitInit
            => /\ connectionTimeout' = "connect"
               /\ client' = "starting" \/ pendingRestarts' = pendingRestarts + 1]_vars

\* a restart whose client.destroy() never completed has re-initialized the client
C35_InitializedAfterHungDestroy ==
    /\ faults.destroy = "hangs"
    /\ InFlight = 0
    /\ reconnectAttempts > 0
    /\ connLog.initsSinceReady > 0
    /\ connectionTimeout = "connect"
    /\ client = "starting"

\* C36: at most one reconnect procedure is under way at a time: while a call of
\* restartConnection is between its start and its re-initialize, no restart
\* request starts a second destroy/initialize sequence or consumes an attempt.
C36_OneRestartAtATime ==
    [][InFlight > 0
          => /\ restarts'.destroying <= restarts.destroying
             /\ reconnectAttempts' <= reconnectAttempts]_vars

\* C37: a reconnect procedure never starts while the connection is Ready: no
\* step taken with isWhatsAppConnected true starts a restartConnection (which
\* goes on to destroy the transport) or increments reconnectAttempts.
C37_NoRestartWhileReady ==
    [][isWhatsAppConnected
          => /\ restarts'.destroying <= restarts.destroying
             /\ reconnectAttempts' <= reconnectAttempts]_vars

\* some chat's monitored flag differs before and after the step
FlagChanged ==
    \E c \in DOMAIN chat_configs :
       chat_configs'[c].is_monitored # chat_configs[c].is_monitored

\* C38: after every operation of the bot process that changes a chat's
\* monitored flag (/monitor, /unmonitor, the startup chat selection, the
\* startup chat review), MONITORED_CHATS equals the names of the chats whose
\* flag is true in chat_configs.
C38_ListFollowsTheFlags ==
    [][FlagChanged => MONITORED_CHATS' = monitoredNames(chat_configs')]_vars

\* the step adds a row to chat_configs or changes the name, the group flag or
\* the participant count of one: what saveChatConfig writes
DiscoveryWrites ==
    \/ DOMAIN chat_configs' # DOMAIN chat_configs
    \/ \E c \in DOMAIN chat_configs :
          \/ chat_configs'[c].chat_name # chat_configs[c].chat_name
          \/ chat_configs'[c].is_group # chat_configs[c].is_group
          \/ chat_configs'[c].participant_count # chat_configs[c].participant_count

\* C39: chat discovery never changes the monitored flag of a chat that is
\* already in chat_configs: a step that writes what discovery writes keeps
\* every existing row and leaves its is_monitored as it was.
C39_DiscoveryKeepsTheFlag ==
    [][DiscoveryWrites
          => /\ DOMAIN chat_configs \subseteq DOMAIN chat_configs'
             /\ \A c \in DOMAIN chat_configs :
                   chat_configs'[c].is_monitored = chat_configs[c].is_monitored]_vars

\* discovery has renamed the monitored group, now an individual chat whose name
\* matched no entry of the list, and the chat is still monitored
C39_RenamedChatStillMonitored ==
    /\ chat_configs["c1"].chat_name = RenamedGroupName
    /\ ~chat_configs["c1"].is_group
    /\ chat_configs["c1"].participant_count = 1
    /\ chat_configs["c1"].is_monitored
    /\ MONITORED_CHATS = {RenamedGroupName}

\* C40: starting the process over an existing bot_sessions row leaves the
\* last-read timestamp as it was and sets only the login timestamp, so the
\* checkpoint is still no later than the instant the process went offline.
C40_StartKeepsTheCheckpoint ==
    [][(~processUp /\ processUp' /\ login_timestamp # NullTime)
          => /\ last_read_timestamp' = last_read_timestamp
             /\ login_timestamp' = now
             /\ last_read_timestamp' <= stoppedAt
             /\ stoppedAt <= now]_vars

\* the process runs again after a time offline that followed an earlier run: the
\* login timestamp is the restart's, the checkpoint is not later than the stop
C40_RestartedAfterOffline ==
    /\ processUp
    /\ stoppedAt # NullTime
    /\ login_timestamp > stoppedAt
    /\ last_read_timestamp # NullTime
    /\ last_read_timestamp > StartTime
    /\ last_read_timestamp <= stoppedAt
====
